---- MODULE Spec2Model ----
(***************************************************************************)
(* Settlement demo: order hashing, the sorted-pair Merkle accumulator of   *)
(* lib/src/lib.rs, and the two Solana settlement programs                  *)
(* (contracts/solana/program and contracts/solana/programs/bankai-solana). *)
(*                                                                         *)
(* Digests are modelled symbolically: keccak256 of a preimage is the term  *)
(* <<preimage>>, so the hash is collision free and a digest of a 160-byte  *)
(* order encoding never equals a digest of a 64-byte pair.                 *)
(***************************************************************************)
EXTENDS Integers, Sequences, FiniteSets, TLC

VARIABLES program, orders_pending, orders_settled, accounts, tx, done,
          submitted, mk, vkey_hash, first_vkey

vars == <<program, orders_pending, orders_settled, accounts, tx, done,
          submitted, mk, vkey_hash, first_vkey>>

chainVars == <<program, orders_pending, orders_settled, accounts, tx, done,
               submitted, vkey_hash, first_vkey>>

(***************************************************************************)
(* Bounds of the model.                                                    *)
(***************************************************************************)
MaxAmount == 2      \* orders sent to a chain differ by amount in 1..MaxAmount
MaxLeafAmount == 3  \* orders given to the accumulator: amount in 1..MaxLeafAmount
MaxLeaves == 3      \* longest leaf sequence given to the accumulator
MaxProofLen == 2    \* longest caller-made (not generated) Merkle proof
MaxBatch == 2       \* longest order_proofs / order_hashes vector of a call
MaxList == 2        \* capacity of orders_pending / orders_settled
MaxGuestOrders == 2 \* longest order vector read by the zkVM guest
MaxGuestTxs == 2    \* most transactions a verified batch proof attests
MaxClientOrders == 2 \* most orders of a bundle handed to a chain client

Range(s) == {s[i] : i \in 1..Len(s)}

SeqsUpTo(S, n) == UNION {[1..k -> S] : k \in 0..n}

(***************************************************************************)
(* Orders and digests.                                                     *)
(***************************************************************************)
MkOrder(a) ==
    [source_chain_id |-> 1, destination_chain_id |-> 2, receiver |-> 7,
     amount |-> a, block_number |-> 5]

Orders == {MkOrder(a) : a \in 1..MaxAmount}

LeafOrders == {MkOrder(a) : a \in 1..MaxLeafAmount}

\* keccak256 as a free constructor over its preimage (a sequence of 32-byte
\* words): injective, and never the all-zero digest.
keccak256(preimage) == <<preimage>>

\* FixedBytes::ZERO / [0u8; 32].
ZERO == <<<<0>>>>

\* abi.encode(order): five 32-byte words in declaration order; a word is
\* modelled by the number it holds.
abi_encode(order) ==
    <<order.source_chain_id, order.destination_chain_id, order.receiver,
      order.amount, order.block_number>>

\* Order::hash of the library.
OrderHash(order) == keccak256(abi_encode(order))

\* order_hash_keccak of the two on-chain programs (the same five words).
order_hash_keccak(order) ==
    keccak256(<<order.source_chain_id, order.destination_chain_id,
                order.receiver, order.amount, order.block_number>>)

OrderHashes == {order_hash_keccak(o) : o \in Orders}

LeafHashes == {OrderHash(o) : o \in LeafOrders}

\* Lexicographic order on equally long sequences of numbers.
RECURSIVE WordsLeq(_, _)
WordsLeq(s, t) ==
    IF Len(s) = 0 THEN TRUE
    ELSE IF s[1] # t[1] THEN s[1] < t[1]
    ELSE WordsLeq(Tail(s), Tail(t))

\* `a <= b` on [u8; 32]: a total order on digests. Digests of shorter
\* preimages come first; equally long preimages compare lexicographically.
RECURSIVE BytesLeq(_, _)
BytesLeq(a, b) ==
    LET pa == a[1]
        pb == b[1]
    IN  IF Len(pa) # Len(pb) THEN Len(pa) < Len(pb)
        ELSE IF Len(pa) = 2
             THEN IF pa[1] # pb[1] THEN BytesLeq(pa[1], pb[1])
                  ELSE BytesLeq(pa[2], pb[2])
             ELSE WordsLeq(pa, pb)

(***************************************************************************)
(* MerkleAccumulator: lib/src/lib.rs and the on-chain merkle.rs.           *)
(***************************************************************************)
\* lib.rs hash_pair: keccak256(min || max).
\* A pair hash that always puts its first argument on the left.
hash_pair_left_first(a, b) == keccak256(<<a, b>>)

hash_pair(a, b) ==
    IF BytesLeq(a, b) THEN keccak256(<<a, b>>) ELSE keccak256(<<b, a>>)

\* A next level that carries an unpaired last node up unhashed.
NextLevel_promote_odd(hashes) ==
    [k \in 1..((Len(hashes) + 1) \div 2) |->
        LET i == 2 * k - 1
        IN  IF i + 1 <= Len(hashes)
            THEN hash_pair(hashes[i], hashes[i + 1])
            ELSE hashes[i]]

\* A next level that pairs an unpaired last node with the zero digest.
NextLevel_zero_pad(hashes) ==
    [k \in 1..((Len(hashes) + 1) \div 2) |->
        LET i == 2 * k - 1
        IN  IF i + 1 <= Len(hashes)
            THEN hash_pair(hashes[i], hashes[i + 1])
            ELSE hash_pair(hashes[i], ZERO)]

\* A next level that drops an unpaired last node.
NextLevel_drop_odd(hashes) ==
    [k \in 1..(Len(hashes) \div 2) |->
        hash_pair(hashes[2 * k - 1], hashes[2 * k])]

\* One pass of `for i in (0..hashes.len()).step_by(2)`: the next level.
NextLevel(hashes) ==
    [k \in 1..((Len(hashes) + 1) \div 2) |->
        LET i == 2 * k - 1
        IN  IF i + 1 <= Len(hashes)
            THEN hash_pair(hashes[i], hashes[i + 1])
            ELSE hash_pair(hashes[i], hashes[i])]

\* A loop whose body runs once before the length is tested.
RECURSIVE TreeLoop_at_least_once(_)
TreeLoop_at_least_once(hashes) ==
    LET next_level == NextLevel(hashes)
    IN  IF Len(next_level) > 1 THEN TreeLoop_at_least_once(next_level)
        ELSE next_level

RECURSIVE TreeLoop(_)
TreeLoop(hashes) ==
    IF Len(hashes) > 1 THEN TreeLoop(NextLevel(hashes)) ELSE hashes

\* A root taken after a single pass over the leaves.
build_tree_and_get_root_one_pass(leaves) ==
    IF Len(leaves) = 0 THEN ZERO ELSE NextLevel(leaves)[1]

build_tree_and_get_root(leaves) ==
    IF Len(leaves) = 0 THEN ZERO ELSE TreeLoop(leaves)[1]

\* A root that is the hash of nothing for an empty batch.
generate_merkle_root_hash_empty(orders) ==
    IF Len(orders) = 0 THEN keccak256(<<>>)
    ELSE TreeLoop([k \in 1..Len(orders) |-> OrderHash(orders[k])])[1]

generate_merkle_root(orders) ==
    IF Len(orders) = 0 THEN ZERO
    ELSE TreeLoop([k \in 1..Len(orders) |-> OrderHash(orders[k])])[1]

\* What one pass of the inner loop of generate_proof pushes onto the proof;
\* i and current_index are the code's 0-based indices.
RECURSIVE LevelPushes(_, _, _)
LevelPushes(hashes, current_index, i) ==
    IF i >= Len(hashes) THEN <<>>
    ELSE (IF i + 1 < Len(hashes)
          THEN IF i = current_index \/ i + 1 = current_index
               THEN <<IF i = current_index THEN hashes[i + 2] ELSE hashes[i + 1]>>
               ELSE <<>>
          ELSE IF i = current_index THEN <<hashes[i + 1]>> ELSE <<>>)
         \o LevelPushes(hashes, current_index, i + 2)

\* The pushes of a generator that appends nothing for the unpaired last node.
NoSelfPushes(hashes, current_index) ==
    LET i == 2 * (current_index \div 2)
    IN  IF i + 1 < Len(hashes)
        THEN <<IF i = current_index THEN hashes[i + 2] ELSE hashes[i + 1]>>
        ELSE <<>>

SiblingPushes(hashes, current_index) == LevelPushes(hashes, current_index, 0)

\* The loop without `current_index /= 2`.
RECURSIVE ProofLoop_no_halving(_, _, _)
ProofLoop_no_halving(hashes, current_index, proof) ==
    IF Len(hashes) > 1
    THEN ProofLoop_no_halving(NextLevel(hashes), current_index,
                              proof \o SiblingPushes(hashes, current_index))
    ELSE proof

RECURSIVE ProofLoop(_, _, _)
ProofLoop(hashes, current_index, proof) ==
    IF Len(hashes) > 1
    THEN ProofLoop(NextLevel(hashes), current_index \div 2,
                   proof \o SiblingPushes(hashes, current_index))
    ELSE proof

\* A generator that clamps an index past the end to the last leaf.
generate_proof_clamped(leaves, index) ==
    IF Len(leaves) = 0 THEN <<>>
    ELSE ProofLoop(leaves, IF index >= Len(leaves) THEN Len(leaves) - 1 ELSE index,
                   <<>>)

\* index is 0-based, as in the code.
generate_proof(leaves, index) ==
    IF Len(leaves) = 0 \/ index >= Len(leaves) THEN <<>>
    ELSE ProofLoop(leaves, index, <<>>)

\* A pair hash that keeps the order of its arguments.
hash_pair_unsorted(a, b) == keccak256(<<a, b>>)

\* merkle.rs hash_pair of bankai-solana: hashv(&[left, right]).
hash_pair_bankai(a, b) ==
    IF BytesLeq(a, b) THEN keccak256(<<a, b>>) ELSE keccak256(<<b, a>>)

\* A fold over proof.iter().skip(1).
RECURSIVE FoldProof_skip_first(_, _)
FoldProof_skip_first(computed, proof) ==
    IF Len(proof) <= 1 THEN computed
    ELSE FoldProof_skip_first(hash_pair_bankai(computed, proof[2]),
                              <<proof[1]>> \o SubSeq(proof, 3, Len(proof)))

RECURSIVE FoldProof(_, _)
FoldProof(computed, proof) ==
    IF Len(proof) = 0 THEN computed
    ELSE FoldProof(hash_pair_bankai(computed, proof[1]), Tail(proof))

\* A verifier that starts its fold at the first proof element.
verify_skipping_leaf(leaf, proof, root) ==
    IF Len(proof) = 0 THEN leaf = root
    ELSE FoldProof(proof[1], Tail(proof)) = root

\* merkle.rs verify_merkle_proof_keccak of bankai-solana.
verify_merkle_proof_keccak(leaf, proof, root) ==
    FoldProof(leaf, proof) = root

\* hash_pair of program/src/merkle.rs: hash(left || right) over a 64-byte buffer.
program_hash_pair(a, b) ==
    IF BytesLeq(a, b) THEN keccak256(<<a, b>>) ELSE keccak256(<<b, a>>)

RECURSIVE ProgramFold(_, _)
ProgramFold(computed, proof) ==
    IF Len(proof) = 0 THEN computed
    ELSE ProgramFold(program_hash_pair(computed, proof[1]), Tail(proof))

\* A verifier that accepts every empty proof.
program_verify_empty_ok(leaf, proof, root) ==
    Len(proof) = 0 \/ ProgramFold(leaf, proof) = root

\* verify_merkle_proof_keccak of program/src/merkle.rs.
program_verify_merkle_proof_keccak(leaf, proof, root) ==
    ProgramFold(leaf, proof) = root

\* Every node of the tree over leaves, level by level.
RECURSIVE TreeNodes(_)
TreeNodes(hashes) ==
    Range(hashes) \cup (IF Len(hashes) > 1 THEN TreeNodes(NextLevel(hashes)) ELSE {})

(***************************************************************************)
(* The accumulator exercised as a pure function: leaves are drawn in Init, *)
(* the actions build, prove and verify.                                    *)
(***************************************************************************)
OrderSeqs == SeqsUpTo(LeafOrders, MaxLeaves)

MkIdle == [pc |-> "off", orders |-> <<>>, leaves |-> <<>>, index |-> 0,
           leaf |-> ZERO, proof |-> <<>>, root |-> ZERO, committed |-> ZERO,
           ok |-> FALSE, ok_program |-> FALSE, order |-> <<>>, hashes |-> <<>>,
           data |-> <<>>]

\* generate_all_proofs: leaves = orders.iter().map(|order| order.hash().0).
LeavesOf(orders) == [k \in 1..Len(orders) |-> OrderHash(orders[k])]

\* generate_all_proofs: one OrderProof per order, in order.
generate_all_proofs(orders) ==
    IF Len(orders) = 0 THEN [root |-> ZERO, proofs |-> <<>>]
    ELSE LET leaves == LeavesOf(orders)
         IN  [root |-> build_tree_and_get_root(leaves),
              proofs |-> [k \in 1..Len(orders) |->
                            [order |-> orders[k],
                             proof |-> generate_proof(leaves, k - 1),
                             leaf_index |-> k - 1]]]

MBuild ==
    /\ mk.pc = "input"
    /\ mk' = [mk EXCEPT !.pc = "built",
                        !.root = build_tree_and_get_root(mk.leaves),
                        !.committed = generate_merkle_root(mk.orders),
                        !.data = generate_all_proofs(mk.orders)]
    /\ UNCHANGED chainVars

MProve ==
    /\ mk.pc = "built"
    /\ \E index \in 0..MaxLeaves :
          mk' = [mk EXCEPT !.pc = "proved",
                           !.index = index,
                           !.leaf = IF index < Len(mk.leaves)
                                    THEN mk.leaves[index + 1] ELSE ZERO,
                           !.proof = generate_proof(mk.leaves, index)]
    /\ UNCHANGED chainVars

MVerify ==
    /\ mk.pc = "proved"
    /\ mk.index < Len(mk.leaves)
    /\ mk' = [mk EXCEPT !.pc = "verified",
                        !.ok = verify_merkle_proof_keccak(mk.leaf, mk.proof, mk.root),
                        !.ok_program = program_verify_merkle_proof_keccak(
                                           mk.leaf, mk.proof, mk.root)]
    /\ UNCHANGED chainVars

\* A caller-made proof for any order hash, checked against the root the
\* guest commits; its elements are drawn from the order hashes, the zero
\* digest and every node of the committed tree.
MForge ==
    /\ mk.pc = "built"
    /\ \E h \in LeafHashes :
       \E proof \in SeqsUpTo(LeafHashes \cup {ZERO} \cup TreeNodes(mk.leaves),
                             MaxProofLen) :
          mk' = [mk EXCEPT !.pc = "forged",
                           !.leaf = h,
                           !.proof = proof,
                           !.ok = verify_merkle_proof_keccak(h, proof, mk.committed),
                           !.ok_program = program_verify_merkle_proof_keccak(
                                              h, proof, mk.committed)]
    /\ UNCHANGED chainVars

\* One part of a generated (leaf, proof, root) triple is replaced by a
\* different digest before it is verified: part 0 is the leaf, part
\* Len(proof) + 1 the root, part i in between the i-th proof element.
MTamper ==
    /\ mk.pc = "proved"
    /\ mk.index < Len(mk.leaves)
    /\ \E part \in 0..(Len(mk.proof) + 1) :
       \E v \in LeafHashes \cup {ZERO} \cup TreeNodes(mk.leaves) :
          LET leaf == IF part = 0 THEN v ELSE mk.leaf
              proof == [i \in 1..Len(mk.proof) |->
                          IF i = part THEN v ELSE mk.proof[i]]
              root == IF part = Len(mk.proof) + 1 THEN v ELSE mk.root
          IN  /\ <<leaf, proof, root>> # <<mk.leaf, mk.proof, mk.root>>
              /\ mk' = [mk EXCEPT !.pc = "tampered",
                                  !.leaf = leaf,
                                  !.proof = proof,
                                  !.root = root,
                                  !.ok = verify_merkle_proof_keccak(leaf, proof, root),
                                  !.ok_program = program_verify_merkle_proof_keccak(
                                                     leaf, proof, root)]
    /\ UNCHANGED chainVars

MerkleNext == MBuild \/ MProve \/ MVerify \/ MForge \/ MTamper

(***************************************************************************)
(* SettlementStateMachine. A chain runs one of the two programs; a         *)
(* transaction is first sent (tx) and then processed whole by its handler. *)
(***************************************************************************)
MinLenProgram == 40     \* sp1_public_inputs.len() >= 40, root at [8, 40)
MinLenBankai == 32      \* sp1_public_inputs.len() >= 32, root at [0, 32)

MinLen(p) == IF p = "program" THEN MinLenProgram ELSE MinLenBankai

\* Pubkey::find_program_address(&[b"order", &h], program_id): one address
\* per order hash.
find_program_address(h) == <<"order", h>>

PdaKeys == {find_program_address(h) : h \in OrderHashes}

\* The vkey_hash field of the state account; NoVkey while the account at
\* seeds [b"state"] does not exist.
NoVkey == "none"

\* Key hashes a caller may hand to initialize.
Vkeys == {"vkey_a", "vkey_b"}

\* The key hash the deployer's client hands to initialize.
ClientVkeyHash == "vkey_a"

BANKAI_VKEY_HASH == "0x003d29a51a01c697e8de906c75c27852dbd2340ba91ae2f033c64a3e8f0228c5"

\* hex_string: the 64 lowercase hex digits of the 32 bytes.
hex_string(bytes32) == <<"hex", bytes32>>

\* The sp1_vkey_hash argument settle_orders hands to sp1_solana::verify_proof.
sp1_vkey_hash(p, vk) == IF p = "program" THEN hex_string(vk) ELSE BANKAI_VKEY_HASH

\* An address that holds no account (lamports 0, empty data).
NoAccount == [exists |-> FALSE, order_hash |-> ZERO, settled |-> FALSE]

NoTx == [op |-> "none"]

\* What a client reads back of its last transaction: the transaction, the
\* handler's result, and the records and the set of submitted hashes as
\* they were before it ran.
NoDone == [tx |-> NoTx, err |-> "none", pre |-> <<>>, was |-> {},
           vkey |-> NoVkey, key |-> NoVkey]

\* Proofs a caller may attach to an order: any sequence of order hashes
\* shorter than the batch.
TxProofs == SeqsUpTo(OrderHashes, MaxBatch - 1)

\* Roots a public output may carry: the root of any batch, ZERO included.
TxRoots == {build_tree_and_get_root(b) : b \in SeqsUpTo(OrderHashes, MaxBatch)}

OrderProofs == [order : Orders, order_hash : OrderHashes, proof : TxProofs]

SubmitTxs(p) ==
    {[op |-> "submit", order |-> o, order_hash |-> c] :
        o \in Orders, c \in (IF p = "bankai" THEN OrderHashes ELSE {ZERO})}

SettleTxs(p) ==
    {[op |-> "settle", proof_ok |-> ok, len |-> n, root |-> r,
      order_proofs |-> ops, remaining_accounts |-> accts] :
        ok \in BOOLEAN, n \in {MinLen(p) - 1, MinLen(p)}, r \in TxRoots,
        ops \in SeqsUpTo(OrderProofs, MaxBatch),
        accts \in (IF p = "bankai" THEN SeqsUpTo(PdaKeys, MaxBatch) ELSE {<<>>})}

InitializeTxs == {[op |-> "initialize", vkey_hash |-> v] : v \in Vkeys}

\* The payer that signed `initialize`, and the keys that may sign a call.
Authority == "authority"

Signers == {Authority, "other"}

ResetTxs(p) ==
    {[op |-> "reset", order_hashes |-> hs, remaining_accounts |-> accts,
      payer |-> s] :
        s \in Signers,
        hs \in SeqsUpTo(OrderHashes, MaxBatch),
        accts \in (IF p = "bankai" THEN SeqsUpTo(PdaKeys, MaxBatch) ELSE {<<>>})}

\* Every transaction a client may send to each program.
ProgramTxs ==
    InitializeTxs \cup SubmitTxs("program") \cup SettleTxs("program")
        \cup ResetTxs("program")

BankaiTxs ==
    InitializeTxs \cup SubmitTxs("bankai") \cup SettleTxs("bankai")
        \cup ResetTxs("bankai")

(***************************************************************************)
(* initialize, the same in both programs: `init` of the state account runs *)
(* before the handler body and fails when the account exists.              *)
(***************************************************************************)
\* An initialize whose state account is declared init_if_needed.
initialize_if_needed(vk, t) == [err |-> "Ok", vkey_hash |-> t.vkey_hash]

initialize(vk, t) ==
    IF vk # NoVkey THEN [err |-> "AccountInUse", vkey_hash |-> vk]
    ELSE [err |-> "Ok", vkey_hash |-> t.vkey_hash]

(***************************************************************************)
(* contracts/solana/program: the state account holds two vectors.          *)
(***************************************************************************)
\* sp1_solana::verify_proof: the external verifier's verdict on the
\* (proof, public inputs, vkey) triple of the transaction.
verify_proof(t) == t.proof_ok

\* submit_order: state.orders_pending.push(order_hash).
program_submit_order(pending, t) ==
    [err |-> "Ok", orders_pending |-> Append(pending, order_hash_keccak(t.order))]

\* The loop without the require! on the claimed hash.
RECURSIVE ProgramSettleLoop_no_hash_check(_, _, _)
ProgramSettleLoop_no_hash_check(settled, ops, merkle_root) ==
    IF Len(ops) = 0 THEN [err |-> "Ok", orders_settled |-> settled]
    ELSE LET op == ops[1]
             h == order_hash_keccak(op.order)
         IN  IF ~program_verify_merkle_proof_keccak(h, op.proof, merkle_root)
             THEN [err |-> "InvalidMerkleProof", orders_settled |-> settled]
             ELSE ProgramSettleLoop_no_hash_check(Append(settled, h), Tail(ops),
                                                  merkle_root)

\* The `for op in order_proofs.iter()` loop; the first failing require! ends it.
RECURSIVE ProgramSettleLoop(_, _, _)
ProgramSettleLoop(settled, ops, merkle_root) ==
    IF Len(ops) = 0 THEN [err |-> "Ok", orders_settled |-> settled]
    ELSE LET op == ops[1]
             h == order_hash_keccak(op.order)
         IN  IF h # op.order_hash
             THEN [err |-> "InvalidOrderHash", orders_settled |-> settled]
             ELSE IF ~program_verify_merkle_proof_keccak(h, op.proof, merkle_root)
             THEN [err |-> "InvalidMerkleProof", orders_settled |-> settled]
             ELSE ProgramSettleLoop(Append(settled, h), Tail(ops), merkle_root)

\* settle_orders with the length of the public inputs checked first.
program_settle_orders_len_first(settled, t) ==
    IF ~(t.len >= MinLenProgram)
    THEN [err |-> "InvalidPublicInputs", orders_settled |-> settled]
    ELSE IF ~verify_proof(t) THEN [err |-> "InvalidProof", orders_settled |-> settled]
    ELSE LET r == ProgramSettleLoop(settled, t.order_proofs, t.root)
         IN  IF r.err = "Ok" THEN r
             ELSE [err |-> r.err, orders_settled |-> settled]

\* settle_orders; an Err return leaves the account as it was.
program_settle_orders(settled, t) ==
    IF ~verify_proof(t) THEN [err |-> "InvalidProof", orders_settled |-> settled]
    ELSE IF ~(t.len >= MinLenProgram)
    THEN [err |-> "InvalidPublicInputs", orders_settled |-> settled]
    ELSE LET r == ProgramSettleLoop(settled, t.order_proofs, t.root)
         IN  IF r.err = "Ok" THEN r
             ELSE [err |-> r.err, orders_settled |-> settled]

\* iter().position(|x| x == &h): 1-based, 0 for None.
Position(s, h) ==
    IF \E i \in 1..Len(s) : s[i] = h
    THEN CHOOSE i \in 1..Len(s) : s[i] = h /\ \A j \in 1..(i - 1) : s[j] # h
    ELSE 0

\* A removal that drops the last element whatever the position found.
swap_remove_pop_last(s, pos) == SubSeq(s, 1, Len(s) - 1)

\* Vec::swap_remove: the last element takes the place of the removed one.
swap_remove(s, pos) ==
    SubSeq([s EXCEPT ![pos] = s[Len(s)]], 1, Len(s) - 1)

RECURSIVE ProgramResetLoop(_, _)
ProgramResetLoop(settled, hs) ==
    IF Len(hs) = 0 THEN settled
    ELSE LET pos == Position(settled, hs[1])
         IN  ProgramResetLoop(IF pos # 0 THEN swap_remove(settled, pos) ELSE settled,
                              Tail(hs))

\* reset_orders.
program_reset_orders(settled, t) ==
    [err |-> "Ok", orders_settled |-> ProgramResetLoop(settled, t.order_hashes)]

(***************************************************************************)
(* contracts/solana/programs/bankai-solana: one OrderStatus account per    *)
(* order hash, at find_program_address(hash).                              *)
(***************************************************************************)
\* submit_order that never writes order_status.order_hash.
bankai_submit_order_hash_unset(accts, t) ==
    LET key == find_program_address(t.order_hash)
        computed == order_hash_keccak(t.order)
    IN  IF accts[key].exists THEN [err |-> "AccountInUse", accounts |-> accts]
        ELSE IF computed # t.order_hash
        THEN [err |-> "InvalidOrderHash", accounts |-> accts]
        ELSE [err |-> "Ok",
              accounts |-> [accts EXCEPT ![key] =
                  [exists |-> TRUE, order_hash |-> ZERO, settled |-> FALSE]]]

\* submit_order without the require! on the claimed hash.
bankai_submit_order_unchecked(accts, t) ==
    LET key == find_program_address(t.order_hash)
        computed == order_hash_keccak(t.order)
    IN  IF accts[key].exists THEN [err |-> "AccountInUse", accounts |-> accts]
        ELSE [err |-> "Ok",
              accounts |-> [accts EXCEPT ![key] =
                  [exists |-> TRUE, order_hash |-> computed, settled |-> FALSE]]]

\* submit_order with the SubmitOrder accounts: `init` of the account at the
\* address of the claimed hash runs before the handler body.
bankai_submit_order(accts, t) ==
    LET key == find_program_address(t.order_hash)
        computed == order_hash_keccak(t.order)
    IN  IF accts[key].exists THEN [err |-> "AccountInUse", accounts |-> accts]
        ELSE IF computed # t.order_hash
        THEN [err |-> "InvalidOrderHash", accounts |-> accts]
        ELSE [err |-> "Ok",
              accounts |-> [accts EXCEPT ![key] =
                  [exists |-> TRUE, order_hash |-> computed, settled |-> FALSE]]]

\* The loop that skips an order proof whose account holds no data.
RECURSIVE BankaiSettleLoop_missing_ok(_, _, _, _, _)
BankaiSettleLoop_missing_ok(accts, ops, remaining, merkle_root, i) ==
    IF i > Len(ops) THEN [err |-> "Ok", accounts |-> accts]
    ELSE LET op == ops[i]
             h == order_hash_keccak(op.order)
         IN  IF h # op.order_hash
             THEN [err |-> "InvalidOrderHash", accounts |-> accts]
             ELSE IF ~verify_merkle_proof_keccak(h, op.proof, merkle_root)
             THEN [err |-> "InvalidMerkleProof", accounts |-> accts]
             ELSE IF i > Len(remaining)
             THEN [err |-> "InvalidPublicInputs", accounts |-> accts]
             ELSE IF find_program_address(h) # remaining[i]
             THEN [err |-> "RequireKeysEqViolated", accounts |-> accts]
             ELSE IF ~accts[remaining[i]].exists
             THEN BankaiSettleLoop_missing_ok(accts, ops, remaining,
                                              merkle_root, i + 1)
             ELSE IF accts[remaining[i]].order_hash # h
             THEN [err |-> "InvalidOrderHash", accounts |-> accts]
             ELSE BankaiSettleLoop_missing_ok(
                      [accts EXCEPT ![remaining[i]].settled = TRUE],
                      ops, remaining, merkle_root, i + 1)

\* The loop with the Merkle proof verified before the claimed hash is compared.
RECURSIVE BankaiSettleLoop_merkle_first(_, _, _, _, _)
BankaiSettleLoop_merkle_first(accts, ops, remaining, merkle_root, i) ==
    IF i > Len(ops) THEN [err |-> "Ok", accounts |-> accts]
    ELSE LET op == ops[i]
             h == order_hash_keccak(op.order)
         IN  IF ~verify_merkle_proof_keccak(h, op.proof, merkle_root)
             THEN [err |-> "InvalidMerkleProof", accounts |-> accts]
             ELSE IF h # op.order_hash
             THEN [err |-> "InvalidOrderHash", accounts |-> accts]
             ELSE IF i > Len(remaining)
             THEN [err |-> "InvalidPublicInputs", accounts |-> accts]
             ELSE IF find_program_address(h) # remaining[i]
             THEN [err |-> "RequireKeysEqViolated", accounts |-> accts]
             ELSE IF ~accts[remaining[i]].exists
             THEN [err |-> "AccountDidNotDeserialize", accounts |-> accts]
             ELSE IF accts[remaining[i]].order_hash # h
             THEN [err |-> "InvalidOrderHash", accounts |-> accts]
             ELSE BankaiSettleLoop_merkle_first(
                      [accts EXCEPT ![remaining[i]].settled = TRUE],
                      ops, remaining, merkle_root, i + 1)

\* The loop that writes to the account at its position without comparing
\* its address or its stored hash with the recomputed hash.
RECURSIVE BankaiSettleLoop_any_account(_, _, _, _, _)
BankaiSettleLoop_any_account(accts, ops, remaining, merkle_root, i) ==
    IF i > Len(ops) THEN [err |-> "Ok", accounts |-> accts]
    ELSE LET op == ops[i]
             h == order_hash_keccak(op.order)
         IN  IF h # op.order_hash
             THEN [err |-> "InvalidOrderHash", accounts |-> accts]
             ELSE IF ~verify_merkle_proof_keccak(h, op.proof, merkle_root)
             THEN [err |-> "InvalidMerkleProof", accounts |-> accts]
             ELSE IF i > Len(remaining)
             THEN [err |-> "InvalidPublicInputs", accounts |-> accts]
             ELSE IF ~accts[remaining[i]].exists
             THEN [err |-> "AccountDidNotDeserialize", accounts |-> accts]
             ELSE BankaiSettleLoop_any_account(
                      [accts EXCEPT ![remaining[i]].settled = TRUE],
                      ops, remaining, merkle_root, i + 1)

\* The `for (i, op) in order_proofs.iter().enumerate()` loop; i is 1-based here.
RECURSIVE BankaiSettleLoop(_, _, _, _, _)
BankaiSettleLoop(accts, ops, remaining, merkle_root, i) ==
    IF i > Len(ops) THEN [err |-> "Ok", accounts |-> accts]
    ELSE LET op == ops[i]
             h == order_hash_keccak(op.order)
         IN  IF h # op.order_hash
             THEN [err |-> "InvalidOrderHash", accounts |-> accts]
             ELSE IF ~verify_merkle_proof_keccak(h, op.proof, merkle_root)
             THEN [err |-> "InvalidMerkleProof", accounts |-> accts]
             ELSE IF i > Len(remaining)
             THEN [err |-> "InvalidPublicInputs", accounts |-> accts]
             ELSE IF find_program_address(h) # remaining[i]
             THEN [err |-> "RequireKeysEqViolated", accounts |-> accts]
             ELSE IF ~accts[remaining[i]].exists
             THEN [err |-> "AccountDidNotDeserialize", accounts |-> accts]
             ELSE IF accts[remaining[i]].order_hash # h
             THEN [err |-> "InvalidOrderHash", accounts |-> accts]
             ELSE BankaiSettleLoop(
                      [accts EXCEPT ![remaining[i]].settled = TRUE],
                      ops, remaining, merkle_root, i + 1)

\* settle_orders that ignores the verifier's verdict.
bankai_settle_orders_unverified(accts, t) ==
    IF ~(t.len >= MinLenBankai)
    THEN [err |-> "InvalidPublicInputs", accounts |-> accts]
    ELSE LET r == BankaiSettleLoop(accts, t.order_proofs, t.remaining_accounts,
                                   t.root, 1)
         IN  IF r.err = "Ok" THEN r ELSE [err |-> r.err, accounts |-> accts]

\* settle_orders that accepts public inputs one byte short.
bankai_settle_orders_short_ok(accts, t) ==
    IF ~verify_proof(t) THEN [err |-> "InvalidProof", accounts |-> accts]
    ELSE IF ~(t.len >= MinLenBankai - 1)
    THEN [err |-> "InvalidPublicInputs", accounts |-> accts]
    ELSE LET r == BankaiSettleLoop(accts, t.order_proofs, t.remaining_accounts,
                                   t.root, 1)
         IN  IF r.err = "Ok" THEN r ELSE [err |-> r.err, accounts |-> accts]

\* settle_orders whose writes survive an Err return.
bankai_settle_orders_no_rollback(accts, t) ==
    IF ~verify_proof(t) THEN [err |-> "InvalidProof", accounts |-> accts]
    ELSE IF ~(t.len >= MinLenBankai)
    THEN [err |-> "InvalidPublicInputs", accounts |-> accts]
    ELSE BankaiSettleLoop(accts, t.order_proofs, t.remaining_accounts, t.root, 1)

\* settle_orders; an Err return rolls every account back.
bankai_settle_orders(accts, t) ==
    IF ~verify_proof(t) THEN [err |-> "InvalidProof", accounts |-> accts]
    ELSE IF ~(t.len >= MinLenBankai)
    THEN [err |-> "InvalidPublicInputs", accounts |-> accts]
    ELSE LET r == BankaiSettleLoop(accts, t.order_proofs, t.remaining_accounts,
                                   t.root, 1)
         IN  IF r.err = "Ok" THEN r ELSE [err |-> r.err, accounts |-> accts]

\* The loop of reset_orders: lamports to the payer, data zeroed; the runtime
\* then drops the account, which has no lamports left.
RECURSIVE BankaiResetLoop(_, _, _, _)
BankaiResetLoop(accts, hs, remaining, i) ==
    IF i > Len(hs) THEN [err |-> "Ok", accounts |-> accts]
    ELSE IF i > Len(remaining)
    THEN [err |-> "InvalidPublicInputs", accounts |-> accts]
    ELSE IF find_program_address(hs[i]) # remaining[i]
    THEN [err |-> "RequireKeysEqViolated", accounts |-> accts]
    ELSE IF accts[remaining[i]].exists /\ accts[remaining[i]].order_hash # hs[i]
    THEN [err |-> "InvalidOrderHash", accounts |-> accts]
    ELSE BankaiResetLoop([accts EXCEPT ![remaining[i]] = NoAccount],
                         hs, remaining, i + 1)

\* reset_orders.
bankai_reset_orders(accts, t) ==
    LET r == BankaiResetLoop(accts, t.order_hashes, t.remaining_accounts, 1)
    IN  IF r.err = "Ok" THEN r ELSE [err |-> r.err, accounts |-> accts]

(***************************************************************************)
(* Status of an order hash, whichever program the chain runs, in a         *)
(* snapshot st = <<orders_pending, orders_settled, accounts>>.             *)
(***************************************************************************)
chainState == <<orders_pending, orders_settled, accounts>>

SettledIn(st, h) ==
    IF program = "program" THEN h \in Range(st[2])
    ELSE st[3][find_program_address(h)].exists
         /\ st[3][find_program_address(h)].settled

PendingIn(st, h) ==
    IF program = "program" THEN h \in Range(st[1])
    ELSE st[3][find_program_address(h)].exists
         /\ ~st[3][find_program_address(h)].settled

RecordIn(st, h) == PendingIn(st, h) \/ SettledIn(st, h)

IsSettled(h) == SettledIn(chainState, h)

IsPending(h) == PendingIn(chainState, h)

HasRecord(h) == RecordIn(chainState, h)

(***************************************************************************)
(* Actions.                                                                *)
(***************************************************************************)
\* A client sends one transaction; the capacity of the two vectors of the
\* older program bounds what is sent to it.
SendTx ==
    /\ mk.pc = "off"
    /\ tx = NoTx
    /\ done = NoDone
    /\ \E t \in (IF program = "program" THEN ProgramTxs ELSE BankaiTxs) :
          /\ (program = "program" /\ t.op = "submit")
                => Len(orders_pending) < MaxList
          /\ (program = "program" /\ t.op = "settle")
                => Len(orders_settled) + Len(t.order_proofs) <= MaxList
          /\ tx' = t
    /\ UNCHANGED <<vkey_hash, first_vkey, program, orders_pending, orders_settled, accounts, done,
                   submitted, mk>>

\* The client reads the result of its transaction.
ReadResult ==
    /\ done # NoDone
    /\ done' = NoDone
    /\ UNCHANGED <<vkey_hash, first_vkey, program, orders_pending, orders_settled, accounts, tx,
                   submitted, mk>>

\* vkey is the state's vkey_hash before the call and key the key hash a
\* settle_orders that ran handed to the verifier.
Done(err) ==
    [tx |-> tx, err |-> err, pre |-> chainState, was |-> submitted,
     vkey |-> vkey_hash,
     key |-> IF tx.op = "settle" /\ vkey_hash # NoVkey
             THEN sp1_vkey_hash(program, vkey_hash) ELSE NoVkey]

\* first_vkey keeps the key hash of the first initialize that succeeded.
Initialize ==
    /\ tx.op = "initialize"
    /\ LET r == initialize(vkey_hash, tx)
       IN  /\ vkey_hash' = r.vkey_hash
           /\ first_vkey' = IF r.err = "Ok" /\ first_vkey = NoVkey
                            THEN tx.vkey_hash ELSE first_vkey
           /\ done' = Done(r.err)
    /\ tx' = NoTx
    /\ UNCHANGED <<program, orders_pending, orders_settled, accounts, submitted, mk>>

\* submit_order, settle_orders and reset_orders before initialize: the
\* state account of their Accounts struct does not deserialize.
Uninitialized ==
    /\ tx.op \in {"submit", "settle", "reset"}
    /\ vkey_hash = NoVkey
    /\ done' = Done("AccountNotInitialized")
    /\ tx' = NoTx
    /\ UNCHANGED <<vkey_hash, first_vkey, program, orders_pending, orders_settled,
                   accounts, submitted, mk>>

ProgramSubmitOrder ==
    /\ program = "program" /\ tx.op = "submit" /\ vkey_hash # NoVkey
    /\ LET r == program_submit_order(orders_pending, tx)
       IN  /\ orders_pending' = r.orders_pending
           /\ done' = Done(r.err)
           /\ submitted' = IF r.err = "Ok"
                           THEN submitted \cup {OrderHash(tx.order)} ELSE submitted
    /\ tx' = NoTx
    /\ UNCHANGED <<vkey_hash, first_vkey, program, orders_settled, accounts, mk>>

ProgramSettleOrders ==
    /\ program = "program" /\ tx.op = "settle" /\ vkey_hash # NoVkey
    /\ LET r == program_settle_orders(orders_settled, tx)
       IN  /\ orders_settled' = r.orders_settled
           /\ done' = Done(r.err)
    /\ tx' = NoTx
    /\ UNCHANGED <<vkey_hash, first_vkey, program, orders_pending, accounts, submitted, mk>>

ProgramResetOrders ==
    /\ program = "program" /\ tx.op = "reset" /\ vkey_hash # NoVkey
    /\ LET r == program_reset_orders(orders_settled, tx)
       IN  /\ orders_settled' = r.orders_settled
           /\ done' = Done(r.err)
    /\ tx' = NoTx
    /\ UNCHANGED <<vkey_hash, first_vkey, program, orders_pending, accounts, submitted, mk>>

BankaiSubmitOrder ==
    /\ program = "bankai" /\ tx.op = "submit" /\ vkey_hash # NoVkey
    /\ LET r == bankai_submit_order(accounts, tx)
       IN  /\ accounts' = r.accounts
           /\ done' = Done(r.err)
           /\ submitted' = IF r.err = "Ok"
                           THEN submitted \cup {OrderHash(tx.order)} ELSE submitted
    /\ tx' = NoTx
    /\ UNCHANGED <<vkey_hash, first_vkey, program, orders_pending, orders_settled, mk>>

BankaiSettleOrders ==
    /\ program = "bankai" /\ tx.op = "settle" /\ vkey_hash # NoVkey
    /\ LET r == bankai_settle_orders(accounts, tx)
       IN  /\ accounts' = r.accounts
           /\ done' = Done(r.err)
    /\ tx' = NoTx
    /\ UNCHANGED <<vkey_hash, first_vkey, program, orders_pending, orders_settled, submitted, mk>>

BankaiResetOrders ==
    /\ program = "bankai" /\ tx.op = "reset" /\ vkey_hash # NoVkey
    /\ LET r == bankai_reset_orders(accounts, tx)
       IN  /\ accounts' = r.accounts
           /\ done' = Done(r.err)
    /\ tx' = NoTx
    /\ UNCHANGED <<vkey_hash, first_vkey, program, orders_pending, orders_settled, submitted, mk>>

Init ==
    /\ program \in {"program", "bankai"}
    /\ orders_pending = <<>>
    /\ orders_settled = <<>>
    /\ accounts = [k \in PdaKeys |-> NoAccount]
    /\ tx = NoTx
    /\ done = NoDone
    /\ submitted = {}
    /\ vkey_hash = ClientVkeyHash
    /\ first_vkey = ClientVkeyHash
    /\ mk = MkIdle

Next ==
    \/ SendTx
    \/ ReadResult
    \/ Initialize
    \/ ProgramSubmitOrder
    \/ ProgramSettleOrders
    \/ ProgramResetOrders
    \/ BankaiSubmitOrder
    \/ BankaiSettleOrders
    \/ BankaiResetOrders

Spec == Init /\ [][Next]_vars

\* A chain on which the program was deployed and initialize has not run.
VkeyInit ==
    /\ program \in {"program", "bankai"}
    /\ orders_pending = <<>>
    /\ orders_settled = <<>>
    /\ accounts = [k \in PdaKeys |-> NoAccount]
    /\ tx = NoTx
    /\ done = NoDone
    /\ submitted = {}
    /\ vkey_hash = NoVkey
    /\ first_vkey = NoVkey
    /\ mk = MkIdle

VkeyNext == Next \/ Uninitialized

VkeySpec == VkeyInit /\ [][VkeyNext]_vars

\* The accumulator alone: no chain, every order sequence as a start state.
MerkleInit ==
    /\ program = "bankai"
    /\ orders_pending = <<>>
    /\ orders_settled = <<>>
    /\ accounts = [k \in PdaKeys |-> NoAccount]
    /\ tx = NoTx
    /\ done = NoDone
    /\ submitted = {}
    /\ vkey_hash = ClientVkeyHash
    /\ first_vkey = ClientVkeyHash
    /\ mk \in {[MkIdle EXCEPT !.pc = "input", !.orders = os,
                                !.leaves = LeavesOf(os)] : os \in OrderSeqs}

MerkleSpec == MerkleInit /\ [][MerkleNext]_vars

(***************************************************************************)
(* Order hashing byte by byte: the two on-chain order_hash_keccak and the  *)
(* client's compute_order_hash. A byte is a number in 0..255, a preimage a *)
(* sequence of bytes.                                                      *)
(***************************************************************************)
\* The k low bytes of n, most significant first; u64::to_be_bytes is
\* BeBytes(n, 8).
RECURSIVE BeBytes(_, _)
BeBytes(n, k) ==
    IF k = 0 THEN <<>> ELSE Append(BeBytes(n \div 256, k - 1), n % 256)

to_be_bytes(n) == BeBytes(n, 8)

\* The k low bytes of n, least significant first.
RECURSIVE LeBytes(_, _)
LeBytes(n, k) ==
    IF k = 0 THEN <<>> ELSE <<n % 256>> \o LeBytes(n \div 256, k - 1)

\* let mut w = [0u8; 32]; w[24..].copy_from_slice(&x.to_be_bytes()).
WordOfU64(x) == [i \in 1..32 |-> IF i <= 24 THEN 0 ELSE to_be_bytes(x)[i - 24]]

\* let mut w = [0u8; 32]; w[12..].copy_from_slice(&receiver).
WordOfReceiver(receiver) ==
    [i \in 1..32 |-> IF i <= 12 THEN 0 ELSE receiver[i - 12]]

\* A word with the little-endian bytes of x in its last 8 bytes.
WordOfU64Le(x) == [i \in 1..32 |-> IF i <= 24 THEN 0 ELSE LeBytes(x, 8)[i - 24]]

\* keccak::hashv(&[s1, ..., sn]): the hash of the slices one after another.
RECURSIVE Concat(_)
Concat(slices) ==
    IF Len(slices) = 0 THEN <<>> ELSE slices[1] \o Concat(Tail(slices))

hashv(slices) == keccak256(Concat(slices))

\* order_hash_keccak of contracts/solana/program: one Vec extended word by
\* word, then hash(&encoded).
program_order_hash_keccak(order) ==
    LET e1 == WordOfU64(order.source_chain_id)
        e2 == e1 \o WordOfU64(order.destination_chain_id)
        e3 == e2 \o WordOfReceiver(order.receiver)
        e4 == e3 \o order.amount
        encoded == e4 \o WordOfU64(order.block_number)
    IN  keccak256(encoded)

\* order_hash_keccak of bankai-solana: hashv over the five words.
bankai_order_hash_keccak(order) ==
    hashv(<<WordOfU64(order.source_chain_id),
            WordOfU64(order.destination_chain_id),
            WordOfReceiver(order.receiver),
            order.amount,
            WordOfU64(order.block_number)>>)

\* A client hash that writes its u64 fields little-endian.
compute_order_hash_le(order) ==
    hashv(<<WordOfU64Le(order.source_chain_id),
            WordOfU64Le(order.destination_chain_id),
            WordOfReceiver(order.receiver),
            order.amount,
            WordOfU64Le(order.block_number)>>)

\* compute_order_hash of the Solana client.
compute_order_hash(order) ==
    hashv(<<WordOfU64(order.source_chain_id),
            WordOfU64(order.destination_chain_id),
            WordOfReceiver(order.receiver),
            order.amount,
            WordOfU64(order.block_number)>>)

\* u64 values of one, two and four significant bytes.
U64Values == {1, 258, 16909060}

\* 20-byte receivers and 32-byte amounts with distinct bytes at both ends.
Receivers == {[i \in 1..20 |-> 0], [i \in 1..20 |-> 160 + i]}

Amounts == {[i \in 1..32 |-> IF i = 32 THEN 1 ELSE 0], [i \in 1..32 |-> 200 + i]}

ByteOrders ==
    [source_chain_id : U64Values, destination_chain_id : U64Values,
     receiver : Receivers, amount : Amounts, block_number : U64Values]

HHash ==
    /\ mk.pc = "hash_input"
    /\ mk' = [mk EXCEPT !.pc = "hashed",
                        !.hashes = <<program_order_hash_keccak(mk.order),
                                     bankai_order_hash_keccak(mk.order),
                                     compute_order_hash(mk.order)>>]
    /\ UNCHANGED chainVars

HashInit ==
    /\ program = "bankai"
    /\ orders_pending = <<>>
    /\ orders_settled = <<>>
    /\ accounts = [k \in PdaKeys |-> NoAccount]
    /\ tx = NoTx
    /\ done = NoDone
    /\ submitted = {}
    /\ vkey_hash = ClientVkeyHash
    /\ first_vkey = ClientVkeyHash
    /\ mk \in {[MkIdle EXCEPT !.pc = "hash_input", !.order = o] : o \in ByteOrders}

HashSpec == HashInit /\ [][HHash]_vars

(***************************************************************************)
(* The end-to-end scenario: a fixture of distinct orders is submitted one  *)
(* by one, settled in one batch with the proofs of generate_all_proofs,    *)
(* and reset. mk.orders holds the orders sent so far, in the order sent.   *)
(***************************************************************************)
NumFixtureOrders == 5

FixtureOrders == {MkOrder(a) : a \in 1..NumFixtureOrders}

FixtureHashes == {OrderHash(o) : o \in FixtureOrders}

\* The accounts a client attaches for a list of order hashes.
OrderPdas(hs) ==
    IF program = "bankai"
    THEN [k \in 1..Len(hs) |-> find_program_address(hs[k])]
    ELSE <<>>

LSendSubmit ==
    /\ mk.pc = "lc_submit"
    /\ tx = NoTx /\ done = NoDone
    /\ \E o \in FixtureOrders \ Range(mk.orders) :
          /\ tx' = [op |-> "submit", order |-> o,
                    order_hash |-> IF program = "bankai" THEN OrderHash(o)
                                   ELSE ZERO]
          /\ mk' = [mk EXCEPT !.orders = Append(@, o)]
    /\ UNCHANGED <<vkey_hash, first_vkey, program, orders_pending, orders_settled, accounts, done,
                   submitted>>

LSendSettle ==
    /\ mk.pc = "lc_submit"
    /\ tx = NoTx /\ done = NoDone
    /\ Range(mk.orders) = FixtureOrders
    /\ LET data == generate_all_proofs(mk.orders)
       IN  /\ tx' = [op |-> "settle", proof_ok |-> TRUE,
                     len |-> MinLen(program), root |-> data.root,
                     order_proofs |->
                        [k \in 1..Len(data.proofs) |->
                            [order |-> data.proofs[k].order,
                             order_hash |-> OrderHash(data.proofs[k].order),
                             proof |-> data.proofs[k].proof]],
                     remaining_accounts |-> OrderPdas(LeavesOf(mk.orders))]
           /\ mk' = [mk EXCEPT !.pc = "lc_settle",
                               !.leaves = LeavesOf(mk.orders),
                               !.root = data.root]
    /\ UNCHANGED <<vkey_hash, first_vkey, program, orders_pending, orders_settled, accounts, done,
                   submitted>>

\* A reset of the settled hashes whose transaction names the payer, a
\* signer, and then one order account per hash, as ResetOrders and the
\* loop of reset_orders take them.
LSendReset ==
    /\ mk.pc = "lc_settle"
    /\ tx = NoTx /\ done = NoDone
    /\ tx' = [op |-> "reset", order_hashes |-> mk.leaves,
              remaining_accounts |-> OrderPdas(mk.leaves), payer |-> Authority]
    /\ mk' = [mk EXCEPT !.pc = "lc_reset"]
    /\ UNCHANGED <<vkey_hash, first_vkey, program, orders_pending, orders_settled, accounts, done,
                   submitted>>

LifecycleInit ==
    /\ program \in {"program", "bankai"}
    /\ orders_pending = <<>>
    /\ orders_settled = <<>>
    /\ accounts = [k \in {find_program_address(h) : h \in FixtureHashes}
                      |-> NoAccount]
    /\ tx = NoTx
    /\ done = NoDone
    /\ submitted = {}
    /\ vkey_hash = ClientVkeyHash
    /\ first_vkey = ClientVkeyHash
    /\ mk = [MkIdle EXCEPT !.pc = "lc_submit"]

LifecycleNext ==
    \/ LSendSubmit
    \/ LSendSettle
    \/ LSendReset
    \/ ReadResult
    \/ ProgramSubmitOrder
    \/ ProgramSettleOrders
    \/ ProgramResetOrders
    \/ BankaiSubmitOrder
    \/ BankaiSettleOrders
    \/ BankaiResetOrders

LifecycleSpec == LifecycleInit /\ [][LifecycleNext]_vars

(***************************************************************************)
(* The zkVM guest (program/src/main.rs), the proving script                *)
(* (script/src/bin/main.rs) and the root extraction of the two on-chain    *)
(* programs, on the bytes of the public values.                            *)
(***************************************************************************)
Some(x) == <<"Some", x>>

None == <<"None">>

\* Orders read by the guest: they differ by amount.
GuestOrders ==
    [source_chain_id : {1}, destination_chain_id : {2},
     receiver : {7}, amount : {1, 2}, block_number : {5}]

\* What the guest reads of a verified transaction: to(), value(), chain_id().
\* A transaction has the receiver or the chain id of the orders, or both.
VerifiedTxs ==
    {t \in [to : {None, Some(7), Some(8)}, value : {1, 2},
            chain_id : {None, Some(2), Some(3)}] :
        t.to = Some(7) \/ t.chain_id = Some(2)}

\* The inputs of the guest: a proof wrapper, which verifies or not and
\* carries the transactions it attests, and the orders.
ProofWrappers ==
    [valid : BOOLEAN, tx : SeqsUpTo(VerifiedTxs, MaxGuestTxs)]

\* The 32 bytes of a digest; byte k of digest d is <<d, k>>.
as_slice(d) == [k \in 1..32 |-> <<d, k>>]

\* FixedBytes::<32>::from_slice / try_into of 32 bytes: the digest with
\* these bytes.
from_slice(bytes) ==
    IF \A k \in 1..32 : bytes[k] = <<bytes[1][1], k>> THEN bytes[1][1]
    ELSE <<<<"bytes", bytes>>>>

\* buf[from..to] with 0-based half-open bounds, when it does not panic.
Slice(buf, from, to) == SubSeq(buf, from + 1, to)

\* A loop over zipped orders and transactions, which stops at the shorter.
RECURSIVE GuestLoop_zip(_, _, _)
GuestLoop_zip(evm_tx, orders, index) ==
    IF index > Len(orders) \/ index > Len(evm_tx) THEN "ok"
    ELSE IF evm_tx[index].to # Some(orders[index].receiver) THEN "panicked"
    ELSE IF evm_tx[index].value # orders[index].amount THEN "panicked"
    ELSE IF evm_tx[index].chain_id # Some(orders[index].destination_chain_id)
    THEN "panicked"
    ELSE GuestLoop_zip(evm_tx, orders, index + 1)

\* `for (index, order) in orders.iter().enumerate()`; index is 1-based here.
\* res.evm.tx[index] panics when there is no such transaction.
RECURSIVE GuestLoop(_, _, _)
GuestLoop(evm_tx, orders, index) ==
    IF index > Len(orders) THEN "ok"
    ELSE IF index > Len(evm_tx) THEN "panicked"
    ELSE IF evm_tx[index].to # Some(orders[index].receiver) THEN "panicked"
    ELSE IF evm_tx[index].value # orders[index].amount THEN "panicked"
    ELSE IF evm_tx[index].chain_id # Some(orders[index].destination_chain_id)
    THEN "panicked"
    ELSE GuestLoop(evm_tx, orders, index + 1)

\* main of the guest: what it has committed when it stops.
guest_main(proof_batch, orders) ==
    IF ~proof_batch.valid THEN [status |-> "panicked", public_values |-> <<>>]
    ELSE IF GuestLoop(proof_batch.tx, orders, 1) # "ok"
    THEN [status |-> "panicked", public_values |-> <<>>]
    ELSE [status |-> "committed",
          public_values |-> as_slice(generate_merkle_root(orders))]

\* u64::to_string and the JSON key of a u64 map key: the decimal digits.
to_string(n) == <<"dec", n>>

\* FixedBytes<32>::to_string: "0x" and the hex digits of the bytes.
FixedBytesToString(h) == <<"0x", hex_string(h)>>

\* hex::decode(s.trim_start_matches("0x")): the bytes of the hex digits.
decode_hex(s) == IF s[1] = "0x" THEN s[2][2] ELSE s[2]

\* The entries main writes under proofsBySourceChain for one chain id, in
\* the order of merkle_proof.proofs.
RECURSIVE GroupOf(_, _)
GroupOf(proofs, chain) ==
    IF Len(proofs) = 0 THEN <<>>
    ELSE (IF proofs[1].order.source_chain_id = chain
          THEN <<[order |-> proofs[1].order,
                  order_hash |-> FixedBytesToString(OrderHash(proofs[1].order)),
                  proof |-> [k \in 1..Len(proofs[1].proof) |->
                                FixedBytesToString(proofs[1].proof[k])],
                  leaf_index |-> proofs[1].leaf_index]>>
          ELSE <<>>) \o GroupOf(Tail(proofs), chain)

\* proofs_by_chain: a map from the source chain ids that occur to their
\* entries, keyed in the JSON by the decimal string of the id.
proofs_by_chain(proofs) ==
    [key \in {to_string(proofs[k].order.source_chain_id) : k \in 1..Len(proofs)}
        |-> GroupOf(proofs, key[2])]

NoBundle == [publicValues |-> <<>>, merkleRoot |-> ZERO,
             proofsBySourceChain |-> <<>>]

ScriptRootFrom == 8

ScriptRootTo == 40

\* main of the script with --execute or --prove, after the guest ran on
\* its stdin: the root it printed and the bundle it wrote, or the panic
\* that stopped it.
script_main(prove, guest, orders) ==
    IF guest.status # "committed"
    THEN [status |-> "run failed", output_root |-> ZERO, bundle |-> NoBundle]
    ELSE IF Len(guest.public_values) < ScriptRootTo
    THEN [status |-> "range end index out of range", output_root |-> ZERO,
          bundle |-> NoBundle]
    ELSE LET output_root ==
                 from_slice(Slice(guest.public_values, ScriptRootFrom, ScriptRootTo))
             merkle_proof == generate_all_proofs(orders)
         IN  IF ~prove
             THEN [status |-> "executed", output_root |-> output_root,
                   bundle |-> NoBundle]
             ELSE IF merkle_proof.root # output_root
             THEN [status |-> "assertion failed", output_root |-> output_root,
                   bundle |-> NoBundle]
             ELSE [status |-> "written", output_root |-> output_root,
                   bundle |-> [publicValues |-> guest.public_values,
                               merkleRoot |-> merkle_proof.root,
                               proofsBySourceChain |->
                                   proofs_by_chain(merkle_proof.proofs)]]

BankaiRootFrom == 0

ProgramRootFrom == 8

\* The root settle_orders takes from sp1_public_inputs: bytes [0, 32) in
\* bankai-solana and [8, 40) in the older program.
extract_merkle_root(p, sp1_public_inputs) ==
    LET from == IF p = "program" THEN ProgramRootFrom ELSE BankaiRootFrom
    IN  IF ~(Len(sp1_public_inputs) >= MinLen(p))
        THEN [err |-> "InvalidPublicInputs", merkle_root |-> ZERO]
        ELSE [err |-> "Ok",
              merkle_root |-> from_slice(Slice(sp1_public_inputs, from, from + 32))]

GuestIdle ==
    [pc |-> "guest", proof_batch |-> [valid |-> FALSE, tx |-> <<>>],
     orders |-> <<>>, guest |-> [status |-> "none", public_values |-> <<>>],
     prove |-> FALSE,
     script |-> [status |-> "none", output_root |-> ZERO, bundle |-> NoBundle],
     chain |-> "none", extracted |-> [err |-> "none", merkle_root |-> ZERO]]

\* The guest runs on its two inputs.
GuestMain ==
    /\ mk.pc = "guest"
    /\ mk' = [mk EXCEPT !.pc = "script",
                        !.guest = guest_main(mk.proof_batch, mk.orders)]
    /\ UNCHANGED chainVars

\* The script runs in one of its two modes on what the guest committed.
ScriptMain ==
    /\ mk.pc = "script"
    /\ \E prove \in BOOLEAN :
          mk' = [mk EXCEPT !.pc = "chain",
                           !.prove = prove,
                           !.script = script_main(prove, mk.guest, mk.orders)]
    /\ UNCHANGED chainVars

\* settle_orders of one of the programs takes the root from the committed
\* public values.
SettleExtract ==
    /\ mk.pc = "chain"
    /\ \E p \in {"program", "bankai"} :
          mk' = [mk EXCEPT !.pc = "extracted",
                           !.chain = p,
                           !.extracted = extract_merkle_root(p, mk.guest.public_values)]
    /\ UNCHANGED chainVars

GuestInit ==
    /\ program = "bankai"
    /\ orders_pending = <<>>
    /\ orders_settled = <<>>
    /\ accounts = [k \in PdaKeys |-> NoAccount]
    /\ tx = NoTx
    /\ done = NoDone
    /\ submitted = {}
    /\ vkey_hash = ClientVkeyHash
    /\ first_vkey = ClientVkeyHash
    /\ \E pb \in ProofWrappers, os \in SeqsUpTo(GuestOrders, MaxGuestOrders) :
          mk = [GuestIdle EXCEPT !.proof_batch = pb, !.orders = os]

GuestNext == GuestMain \/ ScriptMain \/ SettleExtract

GuestSpec == GuestInit /\ [][GuestNext]_vars

(***************************************************************************)
(* The chain clients (script/src/client): what submit_orders,              *)
(* settle_orders, reset_orders and initialize send, and what bankai-solana *)
(* does with the instructions of the Solana client.                        *)
(***************************************************************************)
\* Chain::chain_id of SolanaDevnet and BaseSepolia.
ClientChains == {103, 84532}

ClientOrders ==
    [source_chain_id : ClientChains, destination_chain_id : ClientChains,
     receiver : {7}, amount : {1, 2}, block_number : {5}]

\* The order proofs settle_orders selects: over the groups in key order
\* (for these chain ids the order of the decimal strings is the order of
\* the numbers), every entry whose order has the client's chain as source.
RECURSIVE orders_to_settle_by_destination(_, _, _)
orders_to_settle_by_destination(groups, keys, chain_id) ==
    IF keys = {} THEN <<>>
    ELSE LET key == CHOOSE k \in keys : \A j \in keys : k[2] <= j[2]
         IN  SelectSeq(groups[key],
                       LAMBDA e : e.order.destination_chain_id = chain_id)
                 \o orders_to_settle_by_destination(groups, keys \ {key}, chain_id)

RECURSIVE orders_to_settle(_, _, _)
orders_to_settle(groups, keys, chain_id) ==
    IF keys = {} THEN <<>>
    ELSE LET key == CHOOSE k \in keys : \A j \in keys : k[2] <= j[2]
         IN  SelectSeq(groups[key],
                       LAMBDA e : e.order.source_chain_id = chain_id)
                 \o orders_to_settle(groups, keys \ {key}, chain_id)

\* The hashes reset_orders selects: the group under the decimal string of
\* the client's chain id, or none.
reset_order_hashes(groups, chain_id) ==
    IF to_string(chain_id) \in DOMAIN groups
    THEN [k \in 1..Len(groups[to_string(chain_id)]) |->
             decode_hex(groups[to_string(chain_id)][k].order_hash)]
    ELSE <<>>

\* AccountMeta::new(pubkey, is_signer).
AccountMeta(pubkey, is_signer) == [pubkey |-> pubkey, is_signer |-> is_signer]

\* What a client sends is a sequence of instructions; an EVM or Starknet
\* call has no account list.
Instruction(kind, name, metas, data) ==
    [kind |-> kind, name |-> name,
     accounts |-> IF kind = "solana" THEN metas ELSE <<>>, data |-> data]

\* initialize: only the Solana client has one.
client_initialize(kind, dry_run) ==
    IF kind # "solana" \/ dry_run THEN <<>>
    ELSE <<Instruction(kind, "initialize",
                       <<AccountMeta(<<"state">>, FALSE),
                         AccountMeta(Authority, TRUE),
                         AccountMeta("system_program", FALSE)>>,
                       [op |-> "initialize", vkey_hash |-> ClientVkeyHash])>>

\* submit_orders: one transaction per order whose source is the client's
\* chain; with dry_run the loop continues before it sends.
client_submit_orders(kind, transactions, chain_id, dry_run) ==
    LET filtered_txs ==
            SelectSeq(transactions, LAMBDA t : t.source_chain_id = chain_id)
        sent == IF dry_run THEN <<>> ELSE filtered_txs
    IN  [k \in 1..Len(sent) |->
            LET order_hash == order_hash_keccak(sent[k])
            IN  Instruction(kind, "submit_order",
                    <<AccountMeta(<<"state">>, FALSE),
                      AccountMeta(find_program_address(order_hash), FALSE),
                      AccountMeta(Authority, TRUE),
                      AccountMeta("system_program", FALSE)>>,
                    [op |-> "submit", order |-> sent[k],
                     order_hash |-> order_hash])]

\* settle_orders that sends although dry_run is set.
client_settle_orders_always_sends(kind, proof_data, chain_id, dry_run) ==
    LET selected == orders_to_settle(proof_data.proofsBySourceChain,
                                     DOMAIN proof_data.proofsBySourceChain,
                                     chain_id)
        order_proofs ==
            [k \in 1..Len(selected) |->
                [order |-> selected[k].order,
                 order_hash |-> decode_hex(selected[k].order_hash),
                 proof |-> [j \in 1..Len(selected[k].proof) |->
                               decode_hex(selected[k].proof[j])]]]
    IN  IF Len(selected) = 0 THEN <<>>
        ELSE <<Instruction(kind, "settle_orders",
                   <<AccountMeta(<<"state">>, FALSE)>> \o
                       [k \in 1..Len(order_proofs) |->
                           AccountMeta(find_program_address(
                                           order_proofs[k].order_hash), FALSE)],
                   [op |-> "settle",
                    sp1_public_inputs |-> proof_data.publicValues,
                    proof_ok |-> proof_data.proof,
                    order_proofs |-> order_proofs])>>

\* settle_orders: one transaction with the selected order proofs, and for
\* Solana the state account followed by one order account per order proof.
client_settle_orders(kind, proof_data, chain_id, dry_run) ==
    LET selected == orders_to_settle(proof_data.proofsBySourceChain,
                                     DOMAIN proof_data.proofsBySourceChain,
                                     chain_id)
        order_proofs ==
            [k \in 1..Len(selected) |->
                [order |-> selected[k].order,
                 order_hash |-> decode_hex(selected[k].order_hash),
                 proof |-> [j \in 1..Len(selected[k].proof) |->
                               decode_hex(selected[k].proof[j])]]]
    IN  IF Len(selected) = 0 THEN <<>>
        ELSE IF dry_run THEN <<>>
        ELSE <<Instruction(kind, "settle_orders",
                   <<AccountMeta(<<"state">>, FALSE)>> \o
                       [k \in 1..Len(order_proofs) |->
                           AccountMeta(find_program_address(
                                           order_proofs[k].order_hash), FALSE)],
                   [op |-> "settle",
                    sp1_public_inputs |-> proof_data.publicValues,
                    proof_ok |-> proof_data.proof,
                    order_proofs |-> order_proofs])>>

\* reset_orders: one transaction with the hashes of the chain's group, and
\* for Solana the state account followed by one order account per hash.
client_reset_orders(kind, proof_data, chain_id, dry_run) ==
    LET order_hashes == reset_order_hashes(proof_data.proofsBySourceChain,
                                           chain_id)
    IN  IF Len(order_hashes) = 0 THEN <<>>
        ELSE IF dry_run THEN <<>>
        ELSE <<Instruction(kind, "reset_orders",
                   <<AccountMeta(<<"state">>, FALSE)>> \o
                       [k \in 1..Len(order_hashes) |->
                           AccountMeta(find_program_address(order_hashes[k]),
                                       FALSE)],
                   [op |-> "reset", order_hashes |-> order_hashes])>>

\* Accounts::try_accounts of bankai-solana: the named accounts of the
\* instruction's struct are taken from the front of the account list in
\* declaration order (state; order_status; payer: Signer; system_program),
\* what is left is ctx.remaining_accounts.
try_accounts(vk, ix) ==
    LET named == CASE ix.name = "initialize" -> <<"state", "payer", "system_program">>
                   [] ix.name = "submit_order" ->
                          <<"state", "order_status", "payer", "system_program">>
                   [] ix.name = "settle_orders" -> <<"state">>
                   [] ix.name = "reset_orders" -> <<"state", "payer">>
        remaining == [k \in 1..(Len(ix.accounts) - Len(named)) |->
                         ix.accounts[Len(named) + k].pubkey]
        Fails(k) ==
            CASE named[k] = "state" ->
                     IF ix.accounts[k].pubkey # <<"state">> THEN "ConstraintSeeds"
                     ELSE IF ix.name # "initialize" /\ vk = NoVkey
                     THEN "AccountNotInitialized" ELSE "Ok"
              [] named[k] = "order_status" ->
                     IF ix.accounts[k].pubkey # find_program_address(ix.data.order_hash)
                     THEN "ConstraintSeeds" ELSE "Ok"
              [] named[k] = "payer" ->
                     IF ~ix.accounts[k].is_signer THEN "AccountNotSigner" ELSE "Ok"
              [] named[k] = "system_program" ->
                     IF ix.accounts[k].pubkey # "system_program"
                     THEN "InvalidProgramId" ELSE "Ok"
    IN  IF Len(ix.accounts) < Len(named)
        THEN [err |-> "AccountNotEnoughKeys", remaining_accounts |-> <<>>]
        ELSE IF \E k \in 1..Len(named) : Fails(k) # "Ok"
        THEN [err |-> Fails(CHOOSE k \in 1..Len(named) :
                                /\ Fails(k) # "Ok"
                                /\ \A j \in 1..(k - 1) : Fails(j) = "Ok"),
              remaining_accounts |-> <<>>]
        ELSE [err |-> "Ok", remaining_accounts |-> remaining]

\* bankai-solana runs one instruction on its state account (vk) and its
\* order accounts.
process_instruction(accts, vk, ix) ==
    LET ctx == try_accounts(vk, ix)
    IN  IF ctx.err # "Ok"
        THEN [err |-> ctx.err, accounts |-> accts, vkey_hash |-> vk]
        ELSE IF ix.name = "initialize"
        THEN LET r == initialize(vk, ix.data)
             IN  [err |-> r.err, accounts |-> accts, vkey_hash |-> r.vkey_hash]
        ELSE LET r ==
                 CASE ix.name = "submit_order" ->
                          bankai_submit_order(accts, ix.data)
                   [] ix.name = "settle_orders" ->
                          bankai_settle_orders(accts,
                              [op |-> "settle",
                               proof_ok |-> ix.data.proof_ok,
                               len |-> Len(ix.data.sp1_public_inputs),
                               root |-> extract_merkle_root(
                                            "bankai",
                                            ix.data.sp1_public_inputs).merkle_root,
                               order_proofs |-> ix.data.order_proofs,
                               remaining_accounts |-> ctx.remaining_accounts])
                   [] ix.name = "reset_orders" ->
                          bankai_reset_orders(accts,
                              [op |-> "reset",
                               order_hashes |-> ix.data.order_hashes,
                               remaining_accounts |-> ctx.remaining_accounts])
             IN  [err |-> r.err, accounts |-> r.accounts, vkey_hash |-> vk]

NoCall == [kind |-> "none", op |-> "none", chain_id |-> 0, dry_run |-> FALSE]

\* A client is called; outbox holds the transactions it goes on to send.
ClientCall ==
    /\ mk.pc = "idle"
    /\ \E kind \in {"evm", "starknet", "solana"}, chain_id \in ClientChains,
          op \in {"initialize", "submit", "settle", "reset"},
          dry_run \in BOOLEAN :
          mk' = [mk EXCEPT
                   !.pc = "called",
                   !.call = [kind |-> kind, op |-> op, chain_id |-> chain_id,
                             dry_run |-> dry_run],
                   !.outbox =
                       CASE op = "initialize" -> client_initialize(kind, dry_run)
                         [] op = "submit" ->
                                client_submit_orders(kind, mk.transactions,
                                                     chain_id, dry_run)
                         [] op = "settle" ->
                                client_settle_orders(kind, mk.proof_data,
                                                     chain_id, dry_run)
                         [] op = "reset" ->
                                client_reset_orders(kind, mk.proof_data,
                                                    chain_id, dry_run),
                   !.sent = <<>>,
                   !.results = <<>>,
                   !.pre = accounts]
    /\ UNCHANGED chainVars

\* The client sends its next transaction and waits for it; a Solana
\* transaction is run by bankai-solana, and a failure ends the call.
ClientSend ==
    /\ mk.pc = "called"
    /\ mk.outbox # <<>>
    /\ LET ix == Head(mk.outbox)
           r == IF ix.kind = "solana"
                THEN process_instruction(accounts, vkey_hash, ix)
                ELSE [err |-> "Ok", accounts |-> accounts, vkey_hash |-> vkey_hash]
       IN  /\ accounts' = r.accounts
           /\ vkey_hash' = r.vkey_hash
           /\ submitted' = IF ix.kind = "solana" /\ ix.name = "submit_order"
                              /\ r.err = "Ok"
                           THEN submitted \cup {OrderHash(ix.data.order)}
                           ELSE submitted
           /\ mk' = [mk EXCEPT !.outbox = IF r.err = "Ok" THEN Tail(@) ELSE <<>>,
                               !.sent = Append(@, ix),
                               !.results = Append(@, r.err)]
    /\ UNCHANGED <<first_vkey, program, orders_pending, orders_settled, tx, done>>

\* The call returns.
ClientReturn ==
    /\ mk.pc = "called"
    /\ mk.outbox = <<>>
    /\ mk' = [mk EXCEPT !.pc = "idle", !.call = NoCall, !.sent = <<>>,
                        !.results = <<>>, !.pre = accounts]
    /\ UNCHANGED chainVars

\* The orders of the transactions file and the bundle made from them:
\* grouped as the script groups it, with the public values the guest
\* commits and a proof the verifier accepts or not.
ClientInit ==
    /\ program = "bankai"
    /\ orders_pending = <<>>
    /\ orders_settled = <<>>
    /\ accounts = [k \in {find_program_address(order_hash_keccak(o)) :
                             o \in ClientOrders} |-> NoAccount]
    /\ tx = NoTx
    /\ done = NoDone
    /\ submitted = {}
    /\ vkey_hash = NoVkey
    /\ first_vkey = NoVkey
    /\ \E os \in SeqsUpTo(ClientOrders, MaxClientOrders), ok \in BOOLEAN :
          mk = [pc |-> "idle", transactions |-> os,
                proof_data |->
                    [proof |-> ok,
                     publicValues |-> as_slice(generate_merkle_root(os)),
                     merkleRoot |-> generate_all_proofs(os).root,
                     proofsBySourceChain |->
                         proofs_by_chain(generate_all_proofs(os).proofs)],
                call |-> NoCall, outbox |-> <<>>, sent |-> <<>>,
                results |-> <<>>,
                pre |-> [k \in {find_program_address(order_hash_keccak(o)) :
                                   o \in ClientOrders} |-> NoAccount]]

ClientNext == ClientCall \/ ClientSend \/ ClientReturn

ClientSpec == ClientInit /\ [][ClientNext]_vars

(***************************************************************************)
(* Properties. A state with done.tx.op = X is the state right after the    *)
(* handler of X ran on done.tx from the records done.pre; records change   *)
(* in no other step.                                                       *)
(***************************************************************************)
\* Sorted-pair fold of a proof from a leaf, with the library's hash_pair.
RECURSIVE SortedFold(_, _)
SortedFold(computed, proof) ==
    IF Len(proof) = 0 THEN computed
    ELSE SortedFold(hash_pair(computed, proof[1]), Tail(proof))

\* The order hashes a settle transaction certifies: its batch proof is
\* accepted, its public output is long enough to hold the root, and it
\* carries an order hashing to h whose proof folds to that root.
CertifiedBy(t) ==
    IF t.proof_ok /\ t.len >= MinLen(program)
    THEN {OrderHash(t.order_proofs[i].order) : i \in
            {j \in 1..Len(t.order_proofs) :
                SortedFold(OrderHash(t.order_proofs[j].order),
                           t.order_proofs[j].proof) = t.root}}
    ELSE {}

\* C1: an order hash becomes Settled only by a settle transaction whose
\* batch proof the verifier accepted and which carries an order hashing to
\* it whose Merkle proof folds to the root of that transaction's public
\* output. Nothing is Settled initially, so every Settled hash was
\* certified by some settle call.
C1_SettledOnlyWhenCertified ==
    done.tx.op # "none"
    => \A h \in OrderHashes :
          (IsSettled(h) /\ ~SettledIn(done.pre, h))
              => (done.tx.op = "settle" /\ h \in CertifiedBy(done.tx))

C1_Witness ==
    /\ done.tx.op = "settle"
    /\ done.err = "Ok"
    /\ \E h \in OrderHashes : IsSettled(h) /\ ~SettledIn(done.pre, h)

\* C2: Merkle round trip: the proof generated for any valid index of any
\* non-empty leaf sequence verifies against the built root.
C2_RoundTrip == mk.pc = "verified" => mk.ok

\* An odd level and a duplicated leaf: three leaves, the first equal to the
\* third, proof of the last one.
C2_Witness ==
    /\ mk.pc = "verified"
    /\ Len(mk.leaves) = 3
    /\ mk.leaves[1] = mk.leaves[3]
    /\ mk.index = 2
    /\ mk.ok

\* C3: inclusion soundness: for an order hash that is not a leaf of the
\* batch, no proof of length up to MaxProofLen verifies against the
\* committed root.
C3_InclusionSound ==
    (mk.pc = "forged" /\ mk.leaf \notin Range(mk.leaves)) => ~mk.ok

C3_Witness ==
    /\ mk.pc = "forged"
    /\ Cardinality(Range(mk.leaves)) >= 2
    /\ mk.leaf \notin Range(mk.leaves)
    /\ Len(mk.proof) = MaxProofLen
    /\ mk.proof[1] \in Range(mk.leaves)
    /\ ~mk.ok

\* C4: submitting an order whose hash has no record creates a Pending
\* record keyed by that hash, storing that hash.
C4_SubmitCreatesPending ==
    (/\ done.tx.op = "submit"
     /\ ~RecordIn(done.pre, OrderHash(done.tx.order))
     /\ (program = "bankai" => done.tx.order_hash = OrderHash(done.tx.order)))
    => (/\ done.err = "Ok"
        /\ IsPending(OrderHash(done.tx.order))
        /\ ~IsSettled(OrderHash(done.tx.order))
        /\ (program = "bankai" =>
              accounts[find_program_address(OrderHash(done.tx.order))].order_hash
                  = OrderHash(done.tx.order)))

C4_Witness ==
    /\ done.tx.op = "submit"
    /\ done.err = "Ok"
    /\ ~RecordIn(done.pre, OrderHash(done.tx.order))
    /\ IsPending(OrderHash(done.tx.order))

\* C5: submitting an order whose hash already has a record fails and leaves
\* every record unchanged.
C5_DuplicateSubmissionFails ==
    (done.tx.op = "submit" /\ RecordIn(done.pre, OrderHash(done.tx.order)))
    => (done.err # "Ok" /\ chainState = done.pre)

\* C6: a submit whose claimed hash differs from the recomputed hash fails
\* with the hash-mismatch error and creates or modifies no record.
C6_MismatchIsHashError ==
    (/\ done.tx.op = "submit" /\ program = "bankai"
     /\ done.tx.order_hash # OrderHash(done.tx.order))
    => (done.err = "InvalidOrderHash" /\ chainState = done.pre)

\* C6 as amended: such a submit always fails and changes no record; the
\* error is the hash mismatch unless a record already exists at the address
\* of the claimed hash, where account initialisation fails first.
C6_MismatchFails ==
    (/\ done.tx.op = "submit" /\ program = "bankai"
     /\ done.tx.order_hash # OrderHash(done.tx.order))
    => (/\ done.err =
             IF done.pre[3][find_program_address(done.tx.order_hash)].exists
             THEN "AccountInUse" ELSE "InvalidOrderHash"
        /\ chainState = done.pre)

C6_Witness ==
    /\ program = "bankai"
    /\ done.tx.op = "submit"
    /\ done.tx.order_hash # OrderHash(done.tx.order)
    /\ done.err = "InvalidOrderHash"

\* C7: a settle whose batch proof the verifier rejects fails with
\* InvalidProof and changes no record, whatever its order proofs.
C7_RejectedProofFails ==
    (done.tx.op = "settle" /\ ~done.tx.proof_ok)
    => (done.err = "InvalidProof" /\ chainState = done.pre)

\* A rejected batch proof that came with a valid order proof of a Pending
\* order.
C7_Witness ==
    /\ done.tx.op = "settle"
    /\ ~done.tx.proof_ok
    /\ done.err = "InvalidProof"
    /\ \E i \in 1..Len(done.tx.order_proofs) :
          /\ done.tx.order_proofs[i].order_hash = OrderHash(done.tx.order_proofs[i].order)
          /\ SortedFold(done.tx.order_proofs[i].order_hash,
                        done.tx.order_proofs[i].proof) = done.tx.root
          /\ IsPending(done.tx.order_proofs[i].order_hash)

\* An order proof of the transaction that passes the hash check and whose
\* proof folds to the root, for an order hash without a record in st.
ValidUnknown(t, st) ==
    \E i \in 1..Len(t.order_proofs) :
        /\ t.order_proofs[i].order_hash = OrderHash(t.order_proofs[i].order)
        /\ SortedFold(t.order_proofs[i].order_hash, t.order_proofs[i].proof) = t.root
        /\ ~RecordIn(st, t.order_proofs[i].order_hash)

\* C8: a settle carrying an order that passes the hash and Merkle checks
\* but has no record is rejected and settles nothing; and no order hash is
\* Settled without an earlier successful submit of it.
C8_UnknownOrderRejected ==
    /\ (/\ done.tx.op = "settle"
        /\ done.tx.proof_ok
        /\ done.tx.len >= MinLen(program)
        /\ ValidUnknown(done.tx, done.pre))
       => (done.err # "Ok" /\ chainState = done.pre)
    /\ \A h \in OrderHashes : IsSettled(h) => h \in submitted

\* Number of settled entries recorded for h.
SettledCount(h) ==
    IF program = "program"
    THEN Cardinality({i \in 1..Len(orders_settled) : orders_settled[i] = h})
    ELSE IF IsSettled(h) THEN 1 ELSE 0

\* C9: settlement is idempotent: after a successful settle every order of
\* the batch is recorded as Settled exactly once, and a successful settle of
\* orders that were all Settled already changes nothing.
C9_SettleIdempotent ==
    (done.tx.op = "settle" /\ done.err = "Ok")
    => (/\ \A i \in 1..Len(done.tx.order_proofs) :
              SettledCount(OrderHash(done.tx.order_proofs[i].order)) = 1
        /\ (\A i \in 1..Len(done.tx.order_proofs) :
              SettledIn(done.pre, OrderHash(done.tx.order_proofs[i].order)))
              => chainState = done.pre)

\* C10: after a successful reset no listed hash that had a record is
\* Settled.
C10_ResetUnsettles ==
    (done.tx.op = "reset" /\ done.err = "Ok")
    => \A i \in 1..Len(done.tx.order_hashes) :
          RecordIn(done.pre, done.tx.order_hashes[i])
              => ~IsSettled(done.tx.order_hashes[i])

\* C11: a reset sent by anyone but the administrative authority is rejected
\* and changes no record.
C11_ResetPrivileged ==
    (done.tx.op = "reset" /\ done.tx.payer # Authority)
    => (done.err # "Ok" /\ chainState = done.pre)

\* The order proof at position i of a settle transaction passes every
\* check of the loop body against the records st.
PassesChecks(t, st, i) ==
    LET op == t.order_proofs[i]
        h == OrderHash(op.order)
    IN  /\ op.order_hash = h
        /\ SortedFold(h, op.proof) = t.root
        /\ program = "bankai" =>
              /\ i <= Len(t.remaining_accounts)
              /\ t.remaining_accounts[i] = find_program_address(h)
              /\ st[3][find_program_address(h)].exists
              /\ st[3][find_program_address(h)].order_hash = h

\* C12: a settle that fails at any order leaves every record as it was,
\* the records of the orders that had passed their checks included.
C12_SettleAllOrNothing ==
    (done.tx.op = "settle" /\ done.err # "Ok") => chainState = done.pre

\* A failed batch of two whose first order passed every check and was
\* Pending before the call.
C12_Witness ==
    /\ done.tx.op = "settle"
    /\ done.tx.proof_ok
    /\ done.tx.len >= MinLen(program)
    /\ Len(done.tx.order_proofs) = 2
    /\ PassesChecks(done.tx, done.pre, 1)
    /\ PendingIn(done.pre, OrderHash(done.tx.order_proofs[1].order))
    /\ ~SettledIn(done.pre, OrderHash(done.tx.order_proofs[1].order))
    /\ done.err \notin {"Ok", "none"}
    /\ program = "bankai"

\* The claimed hash of order proof i differs from the recomputed one.
HashMismatchAt(t, i) ==
    t.order_proofs[i].order_hash # OrderHash(t.order_proofs[i].order)

\* The claimed hash of order proof i is right and its proof does not fold
\* to the root of the transaction.
BadMerkleAt(t, i) ==
    /\ ~HashMismatchAt(t, i)
    /\ SortedFold(OrderHash(t.order_proofs[i].order), t.order_proofs[i].proof)
          # t.root

\* The transaction reaches order proof i: the batch proof is accepted, the
\* public output holds a root, and every earlier order proof passes.
Reaches(t, st, i) ==
    /\ t.proof_ok
    /\ t.len >= MinLen(program)
    /\ \A j \in 1..(i - 1) : PassesChecks(t, st, j)

\* C13: a settle carrying an order proof whose claimed hash differs from the
\* recomputed one fails with InvalidOrderHash, and nothing is settled.
C13_MismatchIsInvalidOrderHash ==
    (/\ done.tx.op = "settle"
     /\ \E i \in 1..Len(done.tx.order_proofs) : HashMismatchAt(done.tx, i))
    => (done.err = "InvalidOrderHash" /\ chainState = done.pre)

\* C13 as amended: such a settle always fails and changes no record; the
\* error is InvalidOrderHash when the call reaches the mismatching order
\* proof, and the error of the earlier failing check otherwise.
C13_MismatchAborts ==
    done.tx.op = "settle"
    => \A i \in 1..Len(done.tx.order_proofs) :
          HashMismatchAt(done.tx, i)
          => /\ done.err # "Ok"
             /\ chainState = done.pre
             /\ Reaches(done.tx, done.pre, i) => done.err = "InvalidOrderHash"

\* The second order proof of a batch has the wrong claimed hash after the
\* first one passed on a Pending order.
C13_Witness ==
    /\ done.tx.op = "settle"
    /\ Len(done.tx.order_proofs) = 2
    /\ HashMismatchAt(done.tx, 2)
    /\ Reaches(done.tx, done.pre, 2)
    /\ PendingIn(done.pre, OrderHash(done.tx.order_proofs[1].order))
    /\ done.err = "InvalidOrderHash"

\* C14: a settle carrying an order with the right claimed hash whose proof
\* does not fold to the root fails with InvalidMerkleProof, and changes
\* nothing.
C14_BadProofIsInvalidMerkleProof ==
    (/\ done.tx.op = "settle"
     /\ \E i \in 1..Len(done.tx.order_proofs) : BadMerkleAt(done.tx, i))
    => (done.err = "InvalidMerkleProof" /\ chainState = done.pre)

\* C14 as amended: such a settle always fails and settles nothing; the error
\* is InvalidMerkleProof when the call reaches that order proof.
C14_BadProofAborts ==
    done.tx.op = "settle"
    => \A i \in 1..Len(done.tx.order_proofs) :
          BadMerkleAt(done.tx, i)
          => /\ done.err # "Ok"
             /\ chainState = done.pre
             /\ Reaches(done.tx, done.pre, i) => done.err = "InvalidMerkleProof"

\* An empty proof for an order that is not the root, on a Pending order.
C14_Witness ==
    /\ done.tx.op = "settle"
    /\ Len(done.tx.order_proofs) = 1
    /\ BadMerkleAt(done.tx, 1)
    /\ Len(done.tx.order_proofs[1].proof) = 0
    /\ Reaches(done.tx, done.pre, 1)
    /\ PendingIn(done.pre, OrderHash(done.tx.order_proofs[1].order))
    /\ done.err = "InvalidMerkleProof"

\* C15: a settle whose public output is shorter than offset + 32 bytes is
\* rejected with InvalidPublicInputs and changes no state.
C15_ShortIsInvalidPublicInputs ==
    (done.tx.op = "settle" /\ done.tx.len < MinLen(program))
    => (done.err = "InvalidPublicInputs" /\ chainState = done.pre)

\* C15 as amended: such a settle is always rejected and changes no state;
\* the error is InvalidPublicInputs when the verifier accepted the batch
\* proof and InvalidProof when it did not.
C15_ShortRejected ==
    (done.tx.op = "settle" /\ done.tx.len < MinLen(program))
    => (/\ done.err = IF done.tx.proof_ok THEN "InvalidPublicInputs"
                      ELSE "InvalidProof"
        /\ chainState = done.pre)

\* One byte short, batch proof accepted, with an order proof that would
\* pass every check on a Pending order.
C15_Witness ==
    /\ done.tx.op = "settle"
    /\ done.tx.proof_ok
    /\ done.tx.len = MinLen(program) - 1
    /\ Len(done.tx.order_proofs) = 1
    /\ PassesChecks(done.tx, done.pre, 1)
    /\ PendingIn(done.pre, OrderHash(done.tx.order_proofs[1].order))
    /\ done.err = "InvalidPublicInputs"
    /\ program = "bankai"

\* A reset that hands over, for every listed hash, the account at the
\* address of that hash (the older program takes no accounts).
WellFormedReset(t) ==
    program = "bankai"
    => /\ Len(t.remaining_accounts) = Len(t.order_hashes)
       /\ \A i \in 1..Len(t.order_hashes) :
             t.remaining_accounts[i] = find_program_address(t.order_hashes[i])

\* C16: a reset listing a hash without a record does not abort, changes
\* nothing for that hash, and still resets every listed hash that has a
\* record.
C16_ResetToleratesAbsent ==
    (/\ done.tx.op = "reset"
     /\ WellFormedReset(done.tx)
     /\ \E i \in 1..Len(done.tx.order_hashes) :
           ~RecordIn(done.pre, done.tx.order_hashes[i]))
    => /\ done.err = "Ok"
       /\ \A i \in 1..Len(done.tx.order_hashes) :
             IF RecordIn(done.pre, done.tx.order_hashes[i])
             THEN ~IsSettled(done.tx.order_hashes[i])
             ELSE ~HasRecord(done.tx.order_hashes[i])

\* C18: no order hash is recorded as Pending and as Settled at once.
C18_OneStatus ==
    \A h \in OrderHashes : ~(IsPending(h) /\ IsSettled(h))

\* C17: after the fixture orders were submitted and settled in one batch
\* all of them are Settled, and after the reset that follows all of them
\* are Pending.
C17_Lifecycle ==
    /\ (mk.pc = "lc_settle" /\ done.tx.op = "settle")
          => (done.err = "Ok" /\ \A h \in FixtureHashes : IsSettled(h))
    /\ (mk.pc = "lc_reset" /\ done.tx.op = "reset")
          => (/\ done.err = "Ok"
              /\ \A h \in FixtureHashes : IsPending(h) /\ ~IsSettled(h))

\* C17 as amended: after the reset none of them is Settled; the records
\* read Pending in the older program and are gone in bankai-solana.
C17_LifecycleResets ==
    /\ (mk.pc = "lc_settle" /\ done.tx.op = "settle")
          => (done.err = "Ok" /\ \A h \in FixtureHashes : IsSettled(h))
    /\ (mk.pc = "lc_reset" /\ done.tx.op = "reset")
          => (/\ done.err = "Ok"
              /\ \A h \in FixtureHashes :
                    /\ ~IsSettled(h)
                    /\ IsPending(h) <=> program = "program"
                    /\ HasRecord(h) <=> program = "program")

C17_Witness ==
    /\ mk.pc = "lc_reset"
    /\ done.tx.op = "reset"
    /\ done.err = "Ok"
    /\ Len(done.tx.order_hashes) = NumFixtureOrders
    /\ \A h \in FixtureHashes : SettledIn(done.pre, h) /\ ~IsSettled(h)

\* Byte k (0-based) of the 32-byte big-endian word holding the number x.
RECURSIVE ByteOfWord(_, _)
ByteOfWord(x, k) == IF k = 31 THEN x % 256 ELSE ByteOfWord(x \div 256, k + 1)

\* The 160-byte preimage of an order: five 32-byte words in the order
\* source_chain_id, destination_chain_id, receiver, amount, block_number.
CanonicalPreimage(o) ==
    [i \in 1..160 |->
        LET w == (i - 1) \div 32
            k == (i - 1) % 32
        IN  CASE w = 0 -> ByteOfWord(o.source_chain_id, k)
              [] w = 1 -> ByteOfWord(o.destination_chain_id, k)
              [] w = 2 -> IF k < 12 THEN 0 ELSE o.receiver[k - 11]
              [] w = 3 -> o.amount[k + 1]
              [] w = 4 -> ByteOfWord(o.block_number, k)]

\* C19: the older program, bankai-solana and the client hash the same
\* 160-byte preimage of every order: five words in declaration order, u64
\* big-endian in the last 8 bytes, receiver in the last 20, amount as is.
C19_SamePreimage ==
    mk.pc = "hashed"
    => \A j \in 1..3 : mk.hashes[j] = keccak256(CanonicalPreimage(mk.order))

C19_Witness ==
    /\ mk.pc = "hashed"
    /\ mk.order.source_chain_id = 258
    /\ mk.order.block_number = 16909060
    /\ mk.order.receiver[1] # 0
    /\ mk.hashes[1][1][31] = 1 /\ mk.hashes[1][1][32] = 2
    /\ mk.hashes[3] = mk.hashes[1]

\* min and max of two digests in byte order.
MinBytes(a, b) == IF BytesLeq(a, b) THEN a ELSE b

MaxBytes(a, b) == IF BytesLeq(a, b) THEN b ELSE a

\* computed := H(min(computed, p) || max(computed, p)) over the proof.
RECURSIVE FoldMinMax(_, _)
FoldMinMax(computed, proof) ==
    IF Len(proof) = 0 THEN computed
    ELSE FoldMinMax(keccak256(<<MinBytes(computed, proof[1]),
                                MaxBytes(computed, proof[1])>>), Tail(proof))

\* C20: verify is true exactly when the min/max fold of the proof from the
\* leaf equals the root, and the two on-chain verifiers agree.
C20_VerifyIsFold ==
    /\ mk.pc = "forged"
          => /\ mk.ok <=> FoldMinMax(mk.leaf, mk.proof) = mk.committed
             /\ mk.ok_program <=> mk.ok
    /\ mk.pc = "verified"
          => /\ mk.ok <=> FoldMinMax(mk.leaf, mk.proof) = mk.root
             /\ mk.ok_program <=> mk.ok

\* A caller-made proof that verifies and whose first step puts the proof
\* element before the running hash.
C20_Witness ==
    /\ mk.pc = "forged"
    /\ Len(mk.proof) = 2
    /\ mk.proof[1] # mk.leaf
    /\ BytesLeq(mk.proof[1], mk.leaf)
    /\ mk.ok /\ mk.ok_program

\* ---------------------------------------------------------------------
\* C21 (tamper detection): when the leaf, one proof element or the root of
\* a triple produced by generate_proof and build_tree_and_get_root is
\* replaced by a different digest, verify_merkle_proof_keccak returns false.
C21_TamperDetected == mk.pc = "tampered" => ~mk.ok

\* A proof element of a two-element proof was replaced and the triple was
\* rejected.
C21_Witness ==
    /\ mk.pc = "tampered"
    /\ Len(mk.proof) = 2
    /\ mk.proof # generate_proof(mk.leaves, mk.index)
    /\ ~mk.ok

\* The sorted-pair hash H2 written with the smaller digest first.
H2(a, b) == keccak256(<<MinBytes(a, b), MaxBytes(a, b)>>)

\* The levels of the tree over leaves, bottom first, a level of odd length
\* above one being completed by a copy of its last node.
RECURSIVE PaddedLevels(_)
PaddedLevels(hashes) ==
    IF Len(hashes) <= 1 THEN <<hashes>>
    ELSE LET padded == IF Len(hashes) % 2 = 1
                       THEN Append(hashes, hashes[Len(hashes)]) ELSE hashes
         IN  <<hashes>> \o PaddedLevels([k \in 1..(Len(padded) \div 2) |->
                                           H2(padded[2 * k - 1], padded[2 * k])])

\* The 0-based position, at level k (1-based, bottom first), of the node
\* above leaf index.
RECURSIVE IndexAtLevel(_, _)
IndexAtLevel(index, k) == IF k = 1 THEN index ELSE IndexAtLevel(index, k - 1) \div 2

\* C22 (odd-leaf duplication): the root of a batch is the top of the tree
\* whose odd levels pair their last node with itself, so that the root of
\* [a, b, c] is H2(H2(a, b), H2(c, c)), and the proof of a leaf whose
\* ancestor is the last node of an odd level holds that node's own hash at
\* that level.
C22_OddLeafDuplication ==
    /\ (mk.pc = "proved" /\ Len(mk.leaves) >= 1) =>
          LET levels == PaddedLevels(mk.leaves)
          IN  /\ mk.root = levels[Len(levels)][1]
              /\ Len(mk.leaves) = 3 =>
                    mk.root = H2(H2(mk.leaves[1], mk.leaves[2]),
                                 H2(mk.leaves[3], mk.leaves[3]))
    /\ (mk.pc = "proved" /\ mk.index < Len(mk.leaves)) =>
          LET levels == PaddedLevels(mk.leaves)
          IN  \A k \in 1..(Len(levels) - 1) :
                 LET at == IndexAtLevel(mk.index, k)
                 IN  (Len(levels[k]) % 2 = 1 /\ at = Len(levels[k]) - 1) =>
                        mk.proof[k] = levels[k][at + 1]

\* The proof of the third of three distinct leaves starts with that leaf.
C22_Witness ==
    /\ mk.pc = "proved"
    /\ Len(mk.leaves) = 3
    /\ mk.index = 2
    /\ mk.leaves[3] # mk.leaves[1]
    /\ mk.leaves[3] # mk.leaves[2]
    /\ mk.proof[1] = mk.leaves[3]
    /\ mk.root = H2(H2(mk.leaves[1], mk.leaves[2]), H2(mk.leaves[3], mk.leaves[3]))

\* C23 (empty batch): for an empty batch generate_merkle_root returns the
\* all-zero digest and generate_all_proofs returns the all-zero root with
\* an empty proof list.
C23_EmptyBatch ==
    (mk.pc = "built" /\ Len(mk.orders) = 0) =>
        /\ mk.committed = ZERO
        /\ mk.data.root = ZERO
        /\ mk.data.proofs = <<>>

C23_Witness ==
    /\ mk.pc = "built"
    /\ Len(mk.orders) = 0
    /\ mk.committed = ZERO
    /\ mk.data = [root |-> ZERO, proofs |-> <<>>]

\* C24 (single leaf): the root of a one-leaf batch is that leaf itself, not
\* the leaf hashed with itself, and the leaf's proof is empty.
C24_SingleLeaf ==
    (mk.pc = "proved" /\ Len(mk.leaves) = 1 /\ mk.index = 0) =>
        /\ mk.root = mk.leaves[1]
        /\ mk.committed = mk.leaves[1]
        /\ mk.data.root = mk.leaves[1]
        /\ mk.root # hash_pair(mk.leaves[1], mk.leaves[1])
        /\ mk.proof = <<>>
        /\ mk.data.proofs[1].proof = <<>>

C24_Witness ==
    /\ mk.pc = "proved"
    /\ Len(mk.leaves) = 1
    /\ mk.index = 0
    /\ mk.root = mk.leaf
    /\ mk.proof = <<>>

\* C25 (index out of range): generate_proof returns the empty proof when
\* the batch is empty or the index is not below the number of leaves.
C25_OutOfRangeIsEmpty ==
    (mk.pc = "proved" /\ (Len(mk.leaves) = 0 \/ mk.index >= Len(mk.leaves))) =>
        mk.proof = <<>>

\* An index past the end of a batch whose in-range proofs are not empty.
C25_Witness ==
    /\ mk.pc = "proved"
    /\ Len(mk.leaves) >= 2
    /\ mk.index >= Len(mk.leaves)
    /\ mk.proof = <<>>

\* The least k with 2^k >= n, for n >= 1.
CeilLog2(n) == CHOOSE k \in 0..n : 2^k >= n /\ (k = 0 \/ 2^(k - 1) < n)

\* C26 (proof length): the proof of a valid index of a batch of n >= 1
\* leaves has exactly ceil(log2(n)) elements.
C26_ProofLength ==
    (mk.pc = "proved" /\ mk.index < Len(mk.leaves)) =>
        Len(mk.proof) = CeilLog2(Len(mk.leaves))

\* Three leaves, which are not a power of two, give a proof of two elements.
C26_Witness ==
    /\ mk.pc = "proved"
    /\ Len(mk.leaves) = 3
    /\ mk.index < 3
    /\ Len(mk.proof) = 2

\* The 1-based index of the first order proof that fails a check, or
\* Len + 1 when every order proof passes.
FirstFailing(t, st) ==
    CHOOSE i \in 1..(Len(t.order_proofs) + 1) :
        /\ \A j \in 1..(i - 1) : PassesChecks(t, st, j)
        /\ i <= Len(t.order_proofs) => ~PassesChecks(t, st, i)

\* The errors of the record lookup of bankai-solana.
RecordLookupErrors ==
    {"InvalidPublicInputs", "RequireKeysEqViolated", "AccountDidNotDeserialize",
     "InvalidOrderHash"}

\* The results a settle may report when its checks run in the stated order.
ExpectedErrs(t, st) ==
    IF ~t.proof_ok THEN {"InvalidProof"}
    ELSE IF t.len < MinLen(program) THEN {"InvalidPublicInputs"}
    ELSE LET i == FirstFailing(t, st)
         IN  IF i > Len(t.order_proofs) THEN {"Ok"}
             ELSE IF HashMismatchAt(t, i) THEN {"InvalidOrderHash"}
             ELSE IF BadMerkleAt(t, i) THEN {"InvalidMerkleProof"}
             ELSE RecordLookupErrors

\* The records after the status writes for order proofs 1..n, in order.
RECURSIVE WritesUpTo(_, _, _)
WritesUpTo(t, st, n) ==
    IF n = 0 THEN st
    ELSE LET before == WritesUpTo(t, st, n - 1)
             h == OrderHash(t.order_proofs[n].order)
         IN  IF program = "program"
             THEN <<before[1], Append(before[2], h), before[3]>>
             ELSE <<before[1], before[2],
                    [before[3] EXCEPT ![find_program_address(h)].settled = TRUE]>>

\* The records as the loop of settle_orders leaves them when it returns,
\* before the runtime discards the writes of a failed call.
LoopRecords(t, st) ==
    IF program = "program"
    THEN <<st[1], ProgramSettleLoop(st[2], t.order_proofs, t.root).orders_settled,
           st[3]>>
    ELSE <<st[1], st[2],
           BankaiSettleLoop(st[3], t.order_proofs, t.remaining_accounts,
                            t.root, 1).accounts>>

\* C27 (validation order): settle reports the first failure in the order
\* batch proof, public-output length, then per order proof in sequence the
\* claimed hash, the Merkle proof and the record lookup; a rejected batch
\* proof gives InvalidProof whatever else is wrong, and the loop has written
\* the status of exactly the order proofs before the first failing one.
C27_ValidationOrder ==
    done.tx.op = "settle" =>
        /\ done.err \in ExpectedErrs(done.tx, done.pre)
        /\ ~done.tx.proof_ok => done.err = "InvalidProof"
        /\ (done.tx.proof_ok /\ done.tx.len >= MinLen(program)) =>
              LoopRecords(done.tx, done.pre)
                 = WritesUpTo(done.tx, done.pre,
                              FirstFailing(done.tx, done.pre) - 1)

\* The second order proof of a batch has both a wrong claimed hash and a
\* proof that does not fold to the root, after the first one passed on a
\* Pending order: the hash error is reported and the first write was made.
C27_Witness ==
    /\ done.tx.op = "settle"
    /\ Len(done.tx.order_proofs) = 2
    /\ Reaches(done.tx, done.pre, 2)
    /\ PendingIn(done.pre, OrderHash(done.tx.order_proofs[1].order))
    /\ HashMismatchAt(done.tx, 2)
    /\ SortedFold(OrderHash(done.tx.order_proofs[2].order),
                  done.tx.order_proofs[2].proof) # done.tx.root
    /\ done.err = "InvalidOrderHash"
    /\ LoopRecords(done.tx, done.pre) # done.pre
    /\ program = "bankai"

\* Order hash h was submitted and its record has since been deleted.
DeletedBefore(h) == h \in done.was /\ ~RecordIn(done.pre, h)

\* C28 (settle after reset, record-deleting program): once a reset has
\* deleted the record of a submitted order, a settle listing that order is
\* rejected and leaves it without a Settled status, whatever its proofs;
\* a submit of the order then succeeds and leaves it Pending.
C28_SettleAfterResetRejected ==
    program = "bankai" =>
        /\ done.tx.op = "settle" =>
              \A i \in 1..Len(done.tx.order_proofs) :
                 LET h == OrderHash(done.tx.order_proofs[i].order)
                 IN  DeletedBefore(h) =>
                        /\ done.err # "Ok"
                        /\ chainState = done.pre
                        /\ ~IsSettled(h)
        /\ (/\ done.tx.op = "submit"
            /\ done.tx.order_hash = OrderHash(done.tx.order)
            /\ DeletedBefore(OrderHash(done.tx.order))) =>
              /\ done.err = "Ok"
              /\ IsPending(OrderHash(done.tx.order))
              /\ ~IsSettled(OrderHash(done.tx.order))

\* A settle of one order whose record a reset deleted, with an accepted
\* batch proof, a Merkle proof that folds to the root and the account at
\* the order's address handed over, is rejected.
C28_Witness ==
    /\ program = "bankai"
    /\ done.tx.op = "settle"
    /\ done.tx.proof_ok
    /\ done.tx.len >= MinLen(program)
    /\ Len(done.tx.order_proofs) = 1
    /\ ~HashMismatchAt(done.tx, 1)
    /\ ~BadMerkleAt(done.tx, 1)
    /\ done.tx.remaining_accounts
          = <<find_program_address(OrderHash(done.tx.order_proofs[1].order))>>
    /\ DeletedBefore(OrderHash(done.tx.order_proofs[1].order))
    /\ done.err = "AccountDidNotDeserialize"

\* The order hashes a transaction names: the hash of the submitted order,
\* the hashes of the orders of its order proofs, or its listed hashes.
Touched(t) ==
    IF t.op = "submit" THEN {OrderHash(t.order)}
    ELSE IF t.op = "settle"
    THEN {OrderHash(t.order_proofs[i].order) : i \in 1..Len(t.order_proofs)}
    ELSE IF t.op = "reset" THEN Range(t.order_hashes)
    ELSE {}

\* C29 (frame): a successful submit, settle or reset leaves the status,
\* and in bankai-solana the whole record, of every order hash it does not
\* name as it was before the call.
C29_Frame ==
    (done.tx.op \in {"submit", "settle", "reset"} /\ done.err = "Ok") =>
        \A h \in OrderHashes \ Touched(done.tx) :
            /\ IsPending(h) = PendingIn(done.pre, h)
            /\ IsSettled(h) = SettledIn(done.pre, h)
            /\ accounts[find_program_address(h)]
                  = done.pre[3][find_program_address(h)]

\* A reset of the first of two different Settled hashes of the older
\* program removed the one it names and kept the other.
C29_Witness ==
    /\ program = "program"
    /\ done.tx.op = "reset"
    /\ done.err = "Ok"
    /\ Len(done.pre[2]) = 2
    /\ done.pre[2][1] # done.pre[2][2]
    /\ done.tx.order_hashes = <<done.pre[2][1]>>
    /\ ~IsSettled(done.pre[2][1])
    /\ IsSettled(done.pre[2][2])

\* C30 (fixed verification key): initialize succeeds only while the state
\* account does not exist; once set, the state's vkey_hash is changed by no
\* initialize, submit_order, settle_orders or reset_orders; and every
\* settle_orders that runs hands the verifier the same key hash, the one of
\* the first initialize in the older program and BANKAI_VKEY_HASH in
\* bankai-solana.
C30_FixedVerificationKey ==
    /\ (done.tx.op = "initialize" /\ done.vkey # NoVkey) => done.err # "Ok"
    /\ (done.tx.op # "none" /\ done.vkey # NoVkey) => vkey_hash = done.vkey
    /\ (done.tx.op \in {"submit", "settle", "reset"}) => vkey_hash = done.vkey
    /\ (done.tx.op = "settle" /\ done.err # "AccountNotInitialized") =>
          /\ first_vkey # NoVkey
          /\ done.key = IF program = "program" THEN hex_string(first_vkey)
                        ELSE BANKAI_VKEY_HASH
    /\ vkey_hash = first_vkey

\* A second initialize, with another key hash, is rejected on a chain of
\* the older program that has already settled an order under the first.
C30_Witness ==
    /\ program = "program"
    /\ done.tx.op = "initialize"
    /\ done.vkey = "vkey_b"
    /\ done.tx.vkey_hash = "vkey_a"
    /\ done.err = "AccountInUse"
    /\ Len(orders_settled) >= 1
    /\ vkey_hash = "vkey_b"

\* The sequence s with its elements at 1-based positions i and j exchanged.
Swap(s, i, j) == [s EXCEPT ![i] = s[j], ![j] = s[i]]

\* C31 (position independence): the three pair hashes give the same digest
\* for (a, b) and (b, a); exchanging the two children of a pair of leaves
\* leaves the root unchanged; and the proof generated for a leaf verifies,
\* by a verifier that takes neither flag nor index, against the root of the
\* batch with that leaf and its sibling exchanged.
C31_PositionIndependent ==
    mk.pc = "proved" =>
        /\ \A a, b \in LeafHashes \cup {ZERO} \cup TreeNodes(mk.leaves) :
              /\ hash_pair(a, b) = hash_pair(b, a)
              /\ hash_pair_bankai(a, b) = hash_pair_bankai(b, a)
              /\ program_hash_pair(a, b) = program_hash_pair(b, a)
        /\ \A k \in 1..(Len(mk.leaves) \div 2) :
              LET swapped == Swap(mk.leaves, 2 * k - 1, 2 * k)
              IN  /\ build_tree_and_get_root(swapped) = mk.root
                  /\ mk.index < Len(mk.leaves) =>
                        /\ verify_merkle_proof_keccak(
                               mk.leaf, mk.proof, build_tree_and_get_root(swapped))
                        /\ program_verify_merkle_proof_keccak(
                               mk.leaf, mk.proof, build_tree_and_get_root(swapped))

\* The proof of the first of two leaves, the larger digest of the two, so
\* that the pair is hashed in the opposite order to the leaves'.
C31_Witness ==
    /\ mk.pc = "proved"
    /\ Len(mk.leaves) = 2
    /\ mk.index = 0
    /\ mk.leaves[1] # mk.leaves[2]
    /\ ~BytesLeq(mk.leaves[1], mk.leaves[2])
    /\ mk.root = build_tree_and_get_root(<<mk.leaves[2], mk.leaves[1]>>)
    /\ mk.root = keccak256(<<mk.leaves[2], mk.leaves[1]>>)

\* Order i of the guest's input matches the verified transaction at the
\* same index (1-based here).
OrderMatches(proof_batch, orders, i) ==
    /\ i <= Len(proof_batch.tx)
    /\ proof_batch.tx[i].to = Some(orders[i].receiver)
    /\ proof_batch.tx[i].value = orders[i].amount
    /\ proof_batch.tx[i].chain_id = Some(orders[i].destination_chain_id)

\* C32 (guest commits only matched batches): the guest commits the Merkle
\* root of its orders exactly when the batch proof verifies and every order
\* matches the verified transaction at its index in recipient, value and
\* chain id; otherwise, and whenever there are more orders than verified
\* transactions, it stops having committed nothing.
C32_GuestCommitsOnlyMatched ==
    mk.pc \in {"script", "chain", "extracted"} =>
        LET all_match == /\ mk.proof_batch.valid
                         /\ \A i \in 1..Len(mk.orders) :
                               OrderMatches(mk.proof_batch, mk.orders, i)
        IN  /\ mk.guest.status = "committed" <=> all_match
            /\ mk.guest.status # "committed" =>
                  /\ mk.guest.status = "panicked"
                  /\ mk.guest.public_values = <<>>
            /\ mk.guest.status = "committed" =>
                  mk.guest.public_values = as_slice(generate_merkle_root(mk.orders))
            /\ Len(mk.orders) > Len(mk.proof_batch.tx) =>
                  mk.guest.status = "panicked"

\* Two orders whose first matches its transaction, with a valid batch proof
\* that attests one transaction only: nothing is committed.
C32_Witness ==
    /\ mk.pc = "script"
    /\ mk.proof_batch.valid
    /\ Len(mk.orders) = 2
    /\ Len(mk.proof_batch.tx) = 1
    /\ OrderMatches(mk.proof_batch, mk.orders, 1)
    /\ mk.guest = [status |-> "panicked", public_values |-> <<>>]


\* C34: the root the proving script reads from the public values the guest
\* committed, asserts equal to generate_all_proofs(orders).root and writes
\* as merkleRoot is the root settle_orders of bankai-solana extracts from
\* the same buffer, and every order proof of the written bundle passes the
\* Merkle check against it.
C34_ScriptRootIsChainRoot ==
    (/\ mk.pc = "extracted"
     /\ mk.guest.status = "committed"
     /\ mk.prove
     /\ mk.chain = "bankai")
    => /\ mk.script.status = "written"
       /\ mk.script.bundle.publicValues = mk.guest.public_values
       /\ mk.extracted.err = "Ok"
       /\ mk.script.output_root = mk.extracted.merkle_root
       /\ mk.script.bundle.merkleRoot = mk.extracted.merkle_root
       /\ \A key \in DOMAIN mk.script.bundle.proofsBySourceChain :
            \A k \in 1..Len(mk.script.bundle.proofsBySourceChain[key]) :
               LET e == mk.script.bundle.proofsBySourceChain[key][k]
               IN  verify_merkle_proof_keccak(
                       decode_hex(e.order_hash),
                       [j \in 1..Len(e.proof) |-> decode_hex(e.proof[j])],
                       mk.extracted.merkle_root)


\* The lengths of the levels `while hashes.len() > 1` goes through from
\* hashes, the last one included, for at most fuel iterations.
RECURSIVE LevelLens(_, _)
LevelLens(hashes, fuel) ==
    IF Len(hashes) > 1 /\ fuel > 0
    THEN <<Len(hashes)>> \o LevelLens(NextLevel(hashes), fuel - 1)
    ELSE <<Len(hashes)>>

\* C33 (termination): from every non-empty leaf sequence of n leaves, each
\* iteration of the level loop replaces a level of m > 1 nodes by one of
\* ceil(m / 2) < m nodes, so that within n iterations (ceil(log2(n)) of
\* them) the loop of build_tree_and_get_root and generate_merkle_root ends
\* with exactly one hash, and the loop of generate_proof, which runs over
\* the same levels, ends with one proof element per iteration.
C33_LoopsTerminate ==
    (mk.pc \in {"built", "proved"} /\ Len(mk.leaves) >= 1) =>
        LET lens == LevelLens(mk.leaves, Len(mk.leaves))
        IN  /\ \A k \in 1..(Len(lens) - 1) :
                  /\ lens[k] > 1
                  /\ lens[k + 1] = (lens[k] + 1) \div 2
                  /\ lens[k + 1] < lens[k]
            /\ lens[Len(lens)] = 1
            /\ Len(lens) - 1 = CeilLog2(Len(mk.leaves))
            /\ Len(TreeLoop(mk.leaves)) = 1
            /\ mk.root = TreeLoop(mk.leaves)[1]
            /\ mk.committed = TreeLoop(LeavesOf(mk.orders))[1]
            /\ (mk.pc = "proved" /\ mk.index < Len(mk.leaves)) =>
                  Len(mk.proof) = Len(lens) - 1

\* Three leaves: the levels have 3, 2 and 1 nodes, and a proof was generated.
C33_Witness ==
    /\ mk.pc = "proved"
    /\ mk.index < Len(mk.leaves)
    /\ LevelLens(mk.leaves, Len(mk.leaves)) = <<3, 2, 1>>
    /\ Len(mk.proof) = 2


C36_RecordKey ==
    program = "bankai" =>
        /\ \A h \in OrderHashes :
              LET a == accounts[find_program_address(h)]
              IN  a.exists => (a.order_hash = h /\ h \in submitted)
        /\ (done.tx.op = "submit" /\ done.err = "Ok") =>
              LET h == order_hash_keccak(done.tx.order)
              IN  /\ accounts[find_program_address(h)] =
                        [exists |-> TRUE, order_hash |-> h, settled |-> FALSE]
                  /\ \A k \in PdaKeys \ {find_program_address(h)} :
                        accounts[k] = done.pre[3][k]
        /\ done.tx.op = "settle" =>
              LET ops == done.tx.order_proofs
                  remaining == done.tx.remaining_accounts
              IN  /\ \A k \in PdaKeys :
                        accounts[k] # done.pre[3][k] =>
                           /\ done.err = "Ok"
                           /\ accounts[k] = [done.pre[3][k] EXCEPT !.settled = TRUE]
                           /\ \E i \in 1..Len(ops) :
                                 /\ i <= Len(remaining)
                                 /\ remaining[i] = k
                                 /\ k = find_program_address(
                                            order_hash_keccak(ops[i].order))
                  /\ done.err = "Ok" =>
                        \A i \in 1..Len(ops) :
                           LET h == order_hash_keccak(ops[i].order)
                               a == accounts[find_program_address(h)]
                           IN  a.exists /\ a.settled /\ a.order_hash = h

\* A settle of two different submitted orders set the settled flag of
\* both records, each at its own position.
C36_Witness ==
    /\ program = "bankai"
    /\ done.tx.op = "settle"
    /\ done.err = "Ok"
    /\ Len(done.tx.order_proofs) = 2
    /\ done.tx.order_proofs[1].order # done.tx.order_proofs[2].order
    /\ \A i \in 1..2 :
          LET k == find_program_address(
                       order_hash_keccak(done.tx.order_proofs[i].order))
          IN  /\ done.tx.remaining_accounts[i] = k
              /\ ~done.pre[3][k].settled
              /\ accounts[k].settled


\* C37: a settle or reset transaction built by the Solana client passes
\* the per-position record check of bankai-solana: once the program has
\* taken the accounts of its Accounts struct, the i-th remaining account
\* is the address derived from the i-th order hash of the instruction
\* data, for every position i, and the transaction fails with none of the
\* account errors.
C37_ClientAccountsInOrder ==
    (/\ mk.pc = "called"
     /\ mk.call.kind = "solana"
     /\ mk.call.op \in {"settle", "reset"}
     /\ vkey_hash # NoVkey)
    => \A k \in 1..Len(mk.sent) :
          LET ix == mk.sent[k]
              hs == IF ix.name = "settle_orders"
                    THEN [i \in 1..Len(ix.data.order_proofs) |->
                             order_hash_keccak(ix.data.order_proofs[i].order)]
                    ELSE ix.data.order_hashes
              ctx == try_accounts(vkey_hash, ix)
          IN  /\ ctx.err = "Ok"
              /\ Len(ctx.remaining_accounts) = Len(hs)
              /\ \A i \in 1..Len(hs) :
                    ctx.remaining_accounts[i] = find_program_address(hs[i])
              /\ mk.results[k] \notin
                    {"AccountNotEnoughKeys", "AccountNotSigner",
                     "ConstraintSeeds", "InvalidPublicInputs",
                     "RequireKeysEqViolated"}

\* The order hashes of the transaction a call sends, if it sends one.
SentHashes(ixs) ==
    IF ixs = <<>> THEN {}
    ELSE IF ixs[1].name = "settle_orders"
    THEN {ixs[1].data.order_proofs[i].order_hash :
             i \in 1..Len(ixs[1].data.order_proofs)}
    ELSE Range(ixs[1].data.order_hashes)

\* C38: for a bundle grouped as the proving script writes it, the order
\* hashes a client sends in reset_orders for its chain are the order
\* hashes it sends in settle_orders for that chain, namely the hashes of
\* the orders whose source is that chain.
C38_SettleSetIsResetSet ==
    (/\ mk.pc = "called"
     /\ mk.call.op \in {"settle", "reset"}
     /\ ~mk.call.dry_run)
    => LET settle == client_settle_orders(mk.call.kind, mk.proof_data,
                                          mk.call.chain_id, FALSE)
           reset == client_reset_orders(mk.call.kind, mk.proof_data,
                                        mk.call.chain_id, FALSE)
       IN  /\ mk.sent \o mk.outbox \in {settle, reset, <<>>}
           /\ (mk.results = <<>> \/ mk.results[Len(mk.results)] = "Ok")
                 => mk.sent \o mk.outbox =
                       IF mk.call.op = "settle" THEN settle ELSE reset
           /\ SentHashes(settle) = SentHashes(reset)
           /\ SentHashes(reset) =
                 {OrderHash(mk.transactions[k]) :
                     k \in {j \in 1..Len(mk.transactions) :
                               mk.transactions[j].source_chain_id
                                   = mk.call.chain_id}}

\* A reset was sent for one chain from a bundle with a group for each of
\* the two chains, whose orders go to the other chain.
C38_Witness ==
    /\ mk.pc = "called"
    /\ mk.call.op = "reset"
    /\ ~mk.call.dry_run
    /\ Len(mk.sent) = 1
    /\ Len(mk.transactions) = 2
    /\ mk.transactions[1].source_chain_id # mk.transactions[2].source_chain_id
    /\ \A k \in 1..2 : mk.transactions[k].destination_chain_id
                          # mk.transactions[k].source_chain_id
    /\ SentHashes(mk.sent) = {OrderHash(mk.transactions[k]) :
                                 k \in {j \in 1..2 :
                                           mk.transactions[j].source_chain_id
                                               = mk.call.chain_id}}

\* C39: with dry_run set, submit_orders, settle_orders and reset_orders of
\* every client, and initialize of the Solana client, return without
\* sending a transaction, and no on-chain record changes during the call.
C39_DryRunSendsNothing ==
    (mk.pc = "called" /\ mk.call.dry_run) =>
        /\ mk.outbox = <<>>
        /\ mk.sent = <<>>
        /\ mk.results = <<>>
        /\ accounts = mk.pre

\* A dry run of settle_orders of the Solana client, on an initialized
\* program that holds a record, which would have sent a transaction.
C39_Witness ==
    /\ mk.pc = "called"
    /\ mk.call.dry_run
    /\ mk.call.kind = "solana"
    /\ mk.call.op = "settle"
    /\ vkey_hash # NoVkey
    /\ \E k \in DOMAIN accounts : accounts[k].exists
    /\ client_settle_orders(mk.call.kind, mk.proof_data, mk.call.chain_id,
                            FALSE) # <<>>
    /\ mk.sent = <<>>
    /\ accounts = mk.pre

====
